---- MODULE Spec2Model ----
(***************************************************************************)
(* A model of the plate gate controller's frame decision pipeline          *)
(* (app/pipeline.py), its rule decision (app/rules.py) and the part of the *)
(* orchestrator loop (app/main.py) that drives it.                         *)
(*                                                                         *)
(* Conventions.                                                            *)
(*  - A Python str is a sequence of one-character strings; upper() and     *)
(*    strip() are computed character by character.                         *)
(*  - An Optional value is a sequence of length 0 (None) or 1 (the value). *)
(*  - A dict is a function whose DOMAIN is its key set; the two dicts      *)
(*    whose iteration order the code depends on are sequences of           *)
(*    <<key, timestamp>> pairs in insertion order.                         *)
(*  - Box centers are x + w / 2.0: they are kept doubled (2x + w), so that *)
(*    the half pixel and the int() truncation are exact.                   *)
(*  - time.time() is the integer clock `now`; it starts at Epoch, far      *)
(*    above every cooldown, as the wall clock does.                        *)
(***************************************************************************)
EXTENDS Integers, Sequences, FiniteSets, TLC

VARIABLES
    self,    \* the Pipeline object: every field set in Pipeline.__init__
    now,     \* the wall clock read by time.time()
    loop,    \* the orchestrator's position in run(): "read", "display", "stopped", ...
    frame,   \* the frame handed to the last process_frame call
    out,     \* what the last process_frame call did (observation)
    hist,    \* history kept for the temporal claims (observation)
    dec,     \* the last direct call of a function of the pipeline (observation)
    stream,  \* the RTSPStream object, its acquisition thread and its camera
    main     \* the locals of run() the main loop works with

vars == <<self, now, loop, frame, out, hist, dec, stream, main>>

----------------------------------------------------------------------------
(* Generic helpers *)

None == <<>>
Some(x) == <<x>>
Val(o) == o[1]

Abs(n) == IF n < 0 THEN -n ELSE n
Min2(a, b) == IF a <= b THEN a ELSE b
Max2(a, b) == IF a >= b THEN a ELSE b

\* Python int() of the float v2 / 2: truncation toward zero.
IntOfHalf(v2) == IF v2 >= 0 THEN v2 \div 2 ELSE -((-v2) \div 2)

\* dict helpers
Get(d, k) == IF k \in DOMAIN d THEN Some(d[k]) ELSE None
Put(d, k, v) == [x \in (DOMAIN d) \cup {k} |-> IF x = k THEN v ELSE d[x]]
EmptyDict == [x \in {} |-> 0]

----------------------------------------------------------------------------
(* Strings *)

IsSpace(c) == c = " "

UpperChar(c) ==
    CASE c = "a" -> "A"
      [] c = "b" -> "B"
      [] c = "c" -> "C"
      [] c = "d" -> "D"
      [] OTHER -> c

\* str.upper()
Upper(s) == [i \in 1..Len(s) |-> UpperChar(s[i])]

RECURSIVE LStrip(_)
LStrip(s) == IF s # <<>> /\ IsSpace(Head(s)) THEN LStrip(Tail(s)) ELSE s

RECURSIVE RStrip(_)
RStrip(s) ==
    IF s # <<>> /\ IsSpace(s[Len(s)]) THEN RStrip(SubSeq(s, 1, Len(s) - 1)) ELSE s

\* str.strip()
Strip(s) == RStrip(LStrip(s))

----------------------------------------------------------------------------
(* app/rules.py *)

\* _load_csv_set: one set entry per non-empty row, its first cell stripped
\* and upper-cased.  rows is the set of rows' first cells.
_load_csv_set(rows) == {Upper(Strip(r)) : r \in rows}

\* _load_watchlist: rows is a set of <<plate cell, group cell>>; an empty
\* (or blank) group cell gives None.  The rows used here name each plate
\* once (a plate given twice keeps the group of its last row).
_load_watchlist(rows) ==
    LET keys == {Upper(Strip(r[1])) : r \in rows}
        grp(r) == IF Strip(r[2]) # <<>> THEN Some(Strip(r[2])) ELSE None
    IN  [k \in keys |-> grp(CHOOSE r \in rows : Upper(Strip(r[1])) = k)]

load_rules(allowed_csv, denied_csv, watchlist_csv, ignored_csv) ==
    [allowed   |-> _load_csv_set(allowed_csv),
     denied    |-> _load_csv_set(denied_csv),
     watchlist |-> _load_watchlist(watchlist_csv),
     ignored   |-> _load_csv_set(ignored_csv)]

decide_allow_first(rules, plate) ==
    LET plate_u == Upper(plate)
    IN  IF plate_u = <<>> THEN "unknown"
        ELSE IF plate_u \in rules.ignored THEN "ignore"
        ELSE IF plate_u \in rules.allowed THEN "allow"
        ELSE IF plate_u \in rules.denied THEN "deny"
        ELSE IF plate_u \in DOMAIN rules.watchlist THEN "watch"
        ELSE "unknown"

decide(rules, plate) ==
    LET plate_u == Upper(plate)
    IN  IF plate_u = <<>> THEN "unknown"
        ELSE IF plate_u \in rules.ignored THEN "ignore"
        ELSE IF plate_u \in rules.denied THEN "deny"
        ELSE IF plate_u \in rules.allowed THEN "allow"
        ELSE IF plate_u \in DOMAIN rules.watchlist THEN "watch"
        ELSE "unknown"

----------------------------------------------------------------------------
(* app/pipeline.py: Direction Estimator *)

AxisIndex(ax) == IF ax = "x" THEN 1 ELSE 2

\* _estimate_direction without the noise test of lines 297-299.
_estimate_direction_no_noise(s, current_center) ==
    IF ~s.direction_enabled THEN "none"
    ELSE IF s._last_center = None THEN "none"
    ELSE
      LET last == Val(s._last_center)
          ax == AxisIndex(s.direction_axis)
          delta2 == current_center[ax] - last[ax]
          bysign == IF delta2 > 0 THEN "in" ELSE "out"
          inverted == IF bysign = "in" THEN "out" ELSE "in"
      IN  IF s.direction_invert THEN inverted ELSE bysign

\* _estimate_direction without the inversion of lines 311-312 and 306-307.
_estimate_direction_no_invert(s, current_center) ==
    IF ~s.direction_enabled THEN "none"
    ELSE IF s._last_center = None THEN "none"
    ELSE
      LET last == Val(s._last_center)
          ax == AxisIndex(s.direction_axis)
          delta2 == current_center[ax] - last[ax]
      IN  IF Abs(delta2) < 2 * s.direction_min_disp THEN "none"
          ELSE IF delta2 > 0 THEN "in" ELSE "out"

\* _estimate_direction reporting, with a gate line, only a crossing of it.
_estimate_direction_crossing_only(s, current_center) ==
    IF ~s.direction_enabled THEN "none"
    ELSE IF s._last_center = None THEN "none"
    ELSE
      LET last == Val(s._last_center)
          ax == AxisIndex(s.direction_axis)
          delta2 == current_center[ax] - last[ax]
          bysign == IF delta2 > 0 THEN "in" ELSE "out"
          inverted == IF bysign = "in" THEN "out" ELSE "in"
          dir_val == IF s.direction_invert THEN inverted ELSE bysign
      IN  IF Abs(delta2) < 2 * s.direction_min_disp THEN "none"
          ELSE IF s.direction_gate_line # None /\ s._last_side # None
          THEN LET cur_side ==
                     IF current_center[ax] < 2 * Val(s.direction_gate_line)
                     THEN 0 ELSE 1
               IN  IF cur_side # Val(s._last_side) THEN dir_val ELSE "none"
          ELSE dir_val

\* Centers are doubled, so delta is doubled too: abs(delta) < min_disp is
\* Abs(delta2) < 2 * min_disp, and val < gate_line is val2 < 2 * gate_line.
_estimate_direction(s, current_center) ==
    IF ~s.direction_enabled THEN "none"
    ELSE IF s._last_center = None THEN "none"
    ELSE
      LET last == Val(s._last_center)
          ax == AxisIndex(s.direction_axis)
          delta2 == current_center[ax] - last[ax]
          bysign == IF delta2 > 0 THEN "in" ELSE "out"
          inverted == IF bysign = "in" THEN "out" ELSE "in"
          dir_val == IF s.direction_invert THEN inverted ELSE bysign
      IN  IF Abs(delta2) < 2 * s.direction_min_disp THEN "none"
          ELSE IF s.direction_gate_line # None /\ s._last_side # None
          THEN LET cur_side ==
                     IF current_center[ax] < 2 * Val(s.direction_gate_line)
                     THEN 0 ELSE 1
               IN  IF cur_side # Val(s._last_side) THEN dir_val ELSE dir_val
          ELSE dir_val

_update_direction_state(s, current_center) ==
    LET s1 == [s EXCEPT !._last_center = Some(current_center)]
    IN  IF s.direction_gate_line # None
        THEN LET val2 == current_center[AxisIndex(s.direction_axis)]
             IN  [s1 EXCEPT !._last_side =
                     Some(IF val2 < 2 * Val(s.direction_gate_line) THEN 0 ELSE 1)]
        ELSE s1

----------------------------------------------------------------------------
(* app/pipeline.py: ROI filter *)

\* cv2.pointPolygonTest(pts, (x, y), False) >= 0: the point is inside the
\* polygon or on its boundary.
Cross(a, b, p) == (b[1] - a[1]) * (p[2] - a[2]) - (b[2] - a[2]) * (p[1] - a[1])

OnSegment(a, b, p) ==
    /\ Cross(a, b, p) = 0
    /\ Min2(a[1], b[1]) <= p[1] /\ p[1] <= Max2(a[1], b[1])
    /\ Min2(a[2], b[2]) <= p[2] /\ p[2] <= Max2(a[2], b[2])

\* The edge a-b crosses the horizontal ray from p to the right.
RayCrosses(a, b, p) ==
    /\ (a[2] > p[2]) # (b[2] > p[2])
    /\ LET dy == b[2] - a[2]
           lhs == (p[1] - a[1]) * dy
           rhs == (p[2] - a[2]) * (b[1] - a[1])
       IN  IF dy > 0 THEN lhs < rhs ELSE lhs > rhs

PolyNext(pts, i) == pts[IF i = Len(pts) THEN 1 ELSE i + 1]

PointPolygonTestNonNeg(pts, p) ==
    \/ \E i \in 1..Len(pts) : OnSegment(pts[i], PolyNext(pts, i), p)
    \/ Cardinality({i \in 1..Len(pts) : RayCrosses(pts[i], PolyNext(pts, i), p)}) % 2 = 1

\* _point_in_roi without the sorting of the corners.
_point_in_roi_unsorted(s, center) ==
    IF ~s.roi_enabled THEN TRUE
    ELSE
      LET x == IntOfHalf(center[1])
          y == IntOfHalf(center[2])
      IN  IF s.roi_mode = "rectangle"
          THEN /\ s.roi_rect[1] <= x /\ x <= s.roi_rect[3]
               /\ s.roi_rect[2] <= y /\ y <= s.roi_rect[4]
          ELSE IF Len(s.roi_polygon) < 3 THEN TRUE
          ELSE PointPolygonTestNonNeg(s.roi_polygon, <<x, y>>)

\* _point_in_roi without the upper bound on x.
_point_in_roi_no_x2(s, center) ==
    IF ~s.roi_enabled THEN TRUE
    ELSE
      LET x == IntOfHalf(center[1])
          y == IntOfHalf(center[2])
      IN  IF s.roi_mode = "rectangle"
          THEN LET x1 == Min2(s.roi_rect[1], s.roi_rect[3])
                   y1 == Min2(s.roi_rect[2], s.roi_rect[4])
                   y2 == Max2(s.roi_rect[2], s.roi_rect[4])
               IN  x1 <= x /\ y1 <= y /\ y <= y2
          ELSE IF Len(s.roi_polygon) < 3 THEN TRUE
          ELSE PointPolygonTestNonNeg(s.roi_polygon, <<x, y>>)

_point_in_roi(s, center) ==
    IF ~s.roi_enabled THEN TRUE
    ELSE
      LET x == IntOfHalf(center[1])
          y == IntOfHalf(center[2])
      IN  IF s.roi_mode = "rectangle"
          THEN LET x1 == Min2(s.roi_rect[1], s.roi_rect[3])
                   x2 == Max2(s.roi_rect[1], s.roi_rect[3])
                   y1 == Min2(s.roi_rect[2], s.roi_rect[4])
                   y2 == Max2(s.roi_rect[2], s.roi_rect[4])
               IN  x1 <= x /\ x <= x2 /\ y1 <= y /\ y <= y2
          ELSE IF Len(s.roi_polygon) < 3 THEN TRUE
          ELSE PointPolygonTestNonNeg(s.roi_polygon, <<x, y>>)

Clamp(v, hi) == Max2(0, Min2(hi, v))

\* The mask built at lines 325-336 for a w x h frame: the set of its
\* non-zero pixels.
BuildMask(s, w, h) ==
    IF s.roi_mode = "rectangle"
    THEN LET cx1 == Clamp(s.roi_rect[1], w - 1)
             cy1 == Clamp(s.roi_rect[2], h - 1)
             cx2 == Clamp(s.roi_rect[3], w - 1)
             cy2 == Clamp(s.roi_rect[4], h - 1)
         IN  {p \in (0..(w - 1)) \X (0..(h - 1)) :
                 /\ Min2(cx1, cx2) <= p[1] /\ p[1] <= Max2(cx1, cx2)
                 /\ Min2(cy1, cy2) <= p[2] /\ p[2] <= Max2(cy1, cy2)}
    ELSE IF Len(s.roi_polygon) >= 3
         THEN {p \in (0..(w - 1)) \X (0..(h - 1)) :
                 PointPolygonTestNonNeg(s.roi_polygon, p)}
         ELSE {}

\* _apply_roi_mask without the _roi_dirty test of line 324.
_apply_roi_mask_no_dirty(s, size) ==
    LET w == size[1]
        h == size[2]
        s1 == IF s._roi_mask = None \/ s._roi_mask_size # Some(<<w, h>>)
              THEN [s EXCEPT !._roi_mask = Some(BuildMask(s, w, h)),
                             !._roi_mask_size = Some(<<w, h>>),
                             !._roi_dirty = FALSE]
              ELSE s
    IN  [self |-> s1, mask |-> s1._roi_mask]

\* Returns the pipeline with its mask cache refreshed and the mask applied.
_apply_roi_mask(s, size) ==
    LET w == size[1]
        h == size[2]
        s1 == IF s._roi_mask = None \/ s._roi_mask_size # Some(<<w, h>>) \/ s._roi_dirty
              THEN [s EXCEPT !._roi_mask = Some(BuildMask(s, w, h)),
                             !._roi_mask_size = Some(<<w, h>>),
                             !._roi_dirty = FALSE]
              ELSE s
    IN  [self |-> s1, mask |-> s1._roi_mask]

----------------------------------------------------------------------------
(* app/pipeline.py: Dedup/Debounce engine *)

\* _should_emit refreshing the timestamp when it returns false as well.
_should_emit_refresh(s, plate, t) ==
    LET last == Get(s.last_seen, plate)
    IN  [self |-> [s EXCEPT !.last_seen = Put(s.last_seen, plate, t)],
         ret |-> last = None \/ (t - Val(last)) > s.debounce_sec]

\* _should_emit with >= for >.
_should_emit_ge(s, plate, t) ==
    LET last == Get(s.last_seen, plate)
    IN  IF last = None \/ (t - Val(last)) >= s.debounce_sec
        THEN [self |-> [s EXCEPT !.last_seen = Put(s.last_seen, plate, t)],
              ret |-> TRUE]
        ELSE [self |-> s, ret |-> FALSE]

_should_emit(s, plate, t) ==
    LET last == Get(s.last_seen, plate)
    IN  IF last = None \/ (t - Val(last)) > s.debounce_sec
        THEN [self |-> [s EXCEPT !.last_seen = Put(s.last_seen, plate, t)],
              ret |-> TRUE]
        ELSE [self |-> s, ret |-> FALSE]

\* Insertion-ordered dict kept as a sequence of <<key, timestamp>>.
HasKey(d, k) == \E i \in 1..Len(d) : d[i][1] = k
TsOf(d, k) == d[CHOOSE i \in 1..Len(d) : d[i][1] = k][2]
\* d[k] = ts: an existing key keeps its place, a new key goes last.
SetKey(d, k, ts) ==
    IF HasKey(d, k)
    THEN [i \in 1..Len(d) |-> IF d[i][1] = k THEN <<k, ts>> ELSE d[i]]
    ELSE Append(d, <<k, ts>>)
KeepIdx(d, keep) ==
    LET numbered == [i \in 1..Len(d) |-> <<i, d[i]>>]
        kept == SelectSeq(numbered, LAMBDA e : e[1] \in keep)
    IN  [j \in 1..Len(kept) |-> kept[j][2]]

PruneAbove == 500
PruneCount == 50

\* The indexes of the n entries that sorted(items, key=ts)[:n] selects:
\* sorted is stable, so ties keep insertion order.
OldestIdx(d, n) ==
    {i \in 1..Len(d) :
        Cardinality({j \in 1..Len(d) :
            d[j][2] < d[i][2] \/ (d[j][2] = d[i][2] /\ j < i)}) < n}

_should_emit_unreadable(s, roi_hash, t) ==
    IF ~HasKey(s.last_unreadable_seen, roi_hash)
       \/ (t - TsOf(s.last_unreadable_seen, roi_hash)) > s.unreadable_debounce_sec
    THEN LET d1 == SetKey(s.last_unreadable_seen, roi_hash, t)
             d2 == IF Len(d1) > PruneAbove
                   THEN KeepIdx(d1, (1..Len(d1)) \ OldestIdx(d1, PruneCount))
                   ELSE d1
         IN  [self |-> [s EXCEPT !.last_unreadable_seen = d2], ret |-> TRUE]
    ELSE [self |-> s, ret |-> FALSE]

\* bin(a ^ b).count("1")
RECURSIVE _hamming(_, _)
_hamming(a, b) ==
    IF a = 0 /\ b = 0 THEN 0
    ELSE (IF (a % 2) # (b % 2) THEN 1 ELSE 0) + _hamming(a \div 2, b \div 2)

\* The scan of lines 137-143: the index of the first entry inside the
\* window that is within the threshold, or 0 when the loop runs to its end.
\* The scan with < for <= in the comparison with the threshold.
FirstDupIdx_lt(mem, dhash, t, threshold, window) ==
    LET hits == {i \in 1..Len(mem) :
                    /\ ~((t - mem[i][2]) > window)
                    /\ _hamming(dhash, mem[i][1]) < threshold}
    IN  IF hits = {} THEN 0 ELSE CHOOSE i \in hits : \A j \in hits : i <= j

FirstDupIdx(mem, dhash, t, threshold, window) ==
    LET hits == {i \in 1..Len(mem) :
                    /\ ~((t - mem[i][2]) > window)
                    /\ _hamming(dhash, mem[i][1]) <= threshold}
    IN  IF hits = {} THEN 0 ELSE CHOOSE i \in hits : \A j \in hits : i <= j

\* _unreadable_duplicate taking a candidate without a hash for a duplicate.
_unreadable_duplicate_no_hash_dup(s, dhash, t) ==
    IF t - s._last_unreadable_emit_ts < s.unreadable_global_cooldown_sec
    THEN [self |-> s, ret |-> TRUE]
    ELSE IF dhash = None THEN [self |-> s, ret |-> TRUE]
    ELSE
      LET threshold == Max2(0, s.unreadable_dhash_threshold)
          window == Max2(s.unreadable_debounce_sec, s.unreadable_global_cooldown_sec) * 3
          mem == s._unreadable_memory
          hit == FirstDupIdx(mem, Val(dhash), t, threshold, window)
          scanned == IF hit = 0 THEN Len(mem) ELSE hit - 1
          to_delete == {i \in 1..scanned : (t - mem[i][2]) > window}
      IN  [self |-> [s EXCEPT !._unreadable_memory =
                                  KeepIdx(mem, (1..Len(mem)) \ to_delete)],
           ret |-> hit # 0]

_unreadable_duplicate(s, dhash, t) ==
    IF t - s._last_unreadable_emit_ts < s.unreadable_global_cooldown_sec
    THEN [self |-> s, ret |-> TRUE]
    ELSE IF dhash = None THEN [self |-> s, ret |-> FALSE]
    ELSE
      LET threshold == Max2(0, s.unreadable_dhash_threshold)
          window == Max2(s.unreadable_debounce_sec, s.unreadable_global_cooldown_sec) * 3
          mem == s._unreadable_memory
          hit == FirstDupIdx(mem, Val(dhash), t, threshold, window)
          scanned == IF hit = 0 THEN Len(mem) ELSE hit - 1
          to_delete == {i \in 1..scanned : (t - mem[i][2]) > window}
      IN  [self |-> [s EXCEPT !._unreadable_memory =
                                  KeepIdx(mem, (1..Len(mem)) \ to_delete)],
           ret |-> hit # 0]

\* _record_unreadable that leaves _last_unreadable_emit_ts alone.
_record_unreadable_no_ts(s, dhash, t) ==
    IF dhash # None
    THEN [s EXCEPT !._unreadable_memory = SetKey(s._unreadable_memory, Val(dhash), t)]
    ELSE s

_record_unreadable(s, dhash, t) ==
    LET s1 == [s EXCEPT !._last_unreadable_emit_ts = t]
    IN  IF dhash # None
        THEN [s1 EXCEPT !._unreadable_memory = SetKey(s._unreadable_memory, Val(dhash), t)]
        ELSE s1

----------------------------------------------------------------------------
(* app/pipeline.py: Decision & Dispatch *)

\* decision.upper() in the caption
DecisionUpper(d) ==
    CASE d = "allow" -> "ALLOW"
      [] d = "deny" -> "DENY"
      [] d = "watch" -> "WATCH"
      [] d = "ignore" -> "IGNORE"
      [] OTHER -> "UNKNOWN"

\* f"Plate {plate}{dir_text} -> {decision.upper()}"
PlateCaption(plate, direction, decision) ==
    [kind |-> "plate", plate |-> plate, direction |-> direction,
     decision |-> DecisionUpper(decision)]

\* f"Vehicle detected{dir_text}: plate unreadable"
UnreadableCaption(direction) ==
    [kind |-> "unreadable", plate |-> <<>>, direction |-> direction, decision |-> ""]

\* One notifier.send_photo call; result is what the adapter did with it.
Photo(caption, group, result) == [caption |-> caption, group |-> group, result |-> result]

\* One actuator call.
GateCall(plate, result) ==
    [actuator |-> "gate", plate |-> plate, reason |-> "", result |-> result]
AlarmCall(plate, reason, result) ==
    [actuator |-> "alarm", plate |-> plate, reason |-> reason, result |-> result]

\* _act with the suppression test moved above the notification.
_act_suppress_first(s, plate, decision, direction, env) ==
    LET caption == PlateCaption(plate, direction, decision)
        group == IF plate \in DOMAIN s.rules.watchlist THEN s.rules.watchlist[plate] ELSE None
        note == IF decision = "watch"
                THEN Photo(caption, group, env.notify)
                ELSE Photo(caption, None, env.notify)
        done(acts, raised) == [notif |-> <<note>>, acts |-> acts, raised |-> raised]
        actres == IF env.act = "raise" THEN "act" ELSE "none"
    IN  IF s.suppress_actuators THEN [notif |-> <<>>, acts |-> <<>>, raised |-> "none"]
        ELSE IF env.notify = "raise" THEN done(<<>>, "notify")
        ELSE IF decision = "allow" THEN done(<<GateCall(plate, env.act)>>, actres)
        ELSE IF decision = "deny" THEN done(<<AlarmCall(plate, "deny_list", env.act)>>, actres)
        ELSE done(<<>>, "none")

\* env: what the external adapters do during this call.
\*   env.notify: "ok" | "fail" (not delivered, logged) | "raise"
\*   env.act:    "ok" | "raise"
\* _act doing nothing for a vehicle that goes out.
_act_in_only(s, plate, decision, direction, env) ==
    LET caption == PlateCaption(plate, direction, decision)
        group == IF plate \in DOMAIN s.rules.watchlist THEN s.rules.watchlist[plate] ELSE None
        note == IF decision = "watch"
                THEN Photo(caption, group, env.notify)
                ELSE Photo(caption, None, env.notify)
        done(acts, raised) == [notif |-> <<note>>, acts |-> acts, raised |-> raised]
        actres == IF env.act = "raise" THEN "act" ELSE "none"
    IN  IF direction = "out" THEN [notif |-> <<>>, acts |-> <<>>, raised |-> "none"]
        ELSE IF env.notify = "raise" THEN done(<<>>, "notify")
        ELSE IF s.suppress_actuators THEN done(<<>>, "none")
        ELSE IF decision = "allow" THEN done(<<GateCall(plate, env.act)>>, actres)
        ELSE IF decision = "deny" THEN done(<<AlarmCall(plate, "deny_list", env.act)>>, actres)
        ELSE done(<<>>, "none")

\* _act passing the watch list's group whatever the decision.
_act_group_always(s, plate, decision, direction, env) ==
    LET caption == PlateCaption(plate, direction, decision)
        group == IF plate \in DOMAIN s.rules.watchlist THEN s.rules.watchlist[plate] ELSE None
        note == Photo(caption, group, env.notify)
        done(acts, raised) == [notif |-> <<note>>, acts |-> acts, raised |-> raised]
        actres == IF env.act = "raise" THEN "act" ELSE "none"
    IN  IF env.notify = "raise" THEN done(<<>>, "notify")
        ELSE IF s.suppress_actuators THEN done(<<>>, "none")
        ELSE IF decision = "allow" THEN done(<<GateCall(plate, env.act)>>, actres)
        ELSE IF decision = "deny" THEN done(<<AlarmCall(plate, "deny_list", env.act)>>, actres)
        ELSE done(<<>>, "none")

_act(s, plate, decision, direction, env) ==
    LET caption == PlateCaption(plate, direction, decision)
        group == IF plate \in DOMAIN s.rules.watchlist THEN s.rules.watchlist[plate] ELSE None
        note == IF decision = "watch"
                THEN Photo(caption, group, env.notify)
                ELSE Photo(caption, None, env.notify)
        done(acts, raised) == [notif |-> <<note>>, acts |-> acts, raised |-> raised]
        actres == IF env.act = "raise" THEN "act" ELSE "none"
    IN  IF env.notify = "raise" THEN done(<<>>, "notify")
        ELSE IF s.suppress_actuators THEN done(<<>>, "none")
        ELSE IF decision = "allow" THEN done(<<GateCall(plate, env.act)>>, actres)
        ELSE IF decision = "deny" THEN done(<<AlarmCall(plate, "deny_list", env.act)>>, actres)
        ELSE done(<<>>, "none")

\* (x + w / 2.0, y + h / 2.0), doubled
CenterOf(b) == <<2 * b.x + b.w, 2 * b.y + b.h>>

\* The locals of one process_frame call, and what it has done so far.
StartFrame(s) ==
    [self |-> s, pc |-> "loop", raised |-> "none", ret |-> None,
     unreadable_box |-> None, unreadable_hash |-> None, unreadable_dhash |-> None,
     reads |-> 0, emit |-> <<>>, dispatch |-> None, notif |-> <<>>, acts |-> <<>>,
     drawn |-> FALSE, mask |-> None, blanked |-> 0, upath |-> None, lagged |-> 0,
     ests |-> <<>>]

\* One call of _estimate_direction: box i (0: the call of line 202, after
\* the loop), its argument, whether the Direction State held a center, the
\* (doubled) displacement from that center along the active axis, what the
\* call returned, whether the candidate passed the ROI check, and whether
\* _update_direction_state has been called with the same center since.
Est(i, s, current_center, direction, inroi) ==
    [i |-> i, center |-> current_center, tracking |-> s._last_center # None,
     delta2 |-> IF s._last_center = None THEN 0
                ELSE current_center[AxisIndex(s.direction_axis)]
                         - Val(s._last_center)[AxisIndex(s.direction_axis)],
     dir |-> direction, inroi |-> inroi, updated |-> FALSE]

Updated(ests) == [ests EXCEPT ![Len(ests)].updated = TRUE]

\* ReadableStep without the return of line 194: the loop goes on.
ReadableStep_no_return(st, plate, current_center, direction, t, env) ==
    LET decision == decide(st.self.rules, plate)
        e == _should_emit(st.self, plate, t)
        a == IF e.ret THEN _act(e.self, plate, decision, direction, env)
             ELSE [notif |-> <<>>, acts |-> <<>>, raised |-> "none"]
        st1 == [st EXCEPT !.self = e.self,
                          !.emit = Append(@, [plate |-> plate, t |-> t, ret |-> e.ret]),
                          !.dispatch = IF e.ret
                                       THEN Some([plate |-> plate, decision |-> decision,
                                                  direction |-> direction])
                                       ELSE None,
                          !.notif = @ \o a.notif, !.acts = @ \o a.acts]
    IN  IF a.raised # "none"
        THEN [st1 EXCEPT !.raised = a.raised, !.pc = "raised"]
        ELSE [st1 EXCEPT !.drawn = @ \/ st.self.debug_draw,
                         !.self = _update_direction_state(e.self, current_center),
                         !.ests = Updated(@),
                         !.ret = Some(<<plate, decision>>)]

\* Lines 182-194: the first readable candidate inside the ROI.
ReadableStep(st, plate, current_center, direction, t, env) ==
    LET decision == decide(st.self.rules, plate)
        e == _should_emit(st.self, plate, t)
        a == IF e.ret THEN _act(e.self, plate, decision, direction, env)
             ELSE [notif |-> <<>>, acts |-> <<>>, raised |-> "none"]
        st1 == [st EXCEPT !.self = e.self,
                          !.emit = Append(@, [plate |-> plate, t |-> t, ret |-> e.ret]),
                          !.dispatch = IF e.ret
                                       THEN Some([plate |-> plate, decision |-> decision,
                                                  direction |-> direction])
                                       ELSE None,
                          !.notif = @ \o a.notif, !.acts = @ \o a.acts]
    IN  IF a.raised # "none"
        THEN [st1 EXCEPT !.raised = a.raised, !.pc = "raised"]
        ELSE [st1 EXCEPT !.drawn = @ \/ st.self.debug_draw,
                         !.self = _update_direction_state(e.self, current_center),
                         !.ests = Updated(@),
                         !.ret = Some(<<plate, decision>>),
                         !.pc = "returned"]

\* Lines 169-181: a candidate inside the ROI whose text is too short.
UnreadableStep(st, b, current_center) ==
    LET st1 == IF st.unreadable_box = None
               THEN [st EXCEPT !.unreadable_box = Some(b),
                               !.unreadable_hash =
                                   IF b.pix = None THEN None ELSE Some(Val(b.pix).hash),
                               !.unreadable_dhash =
                                   IF b.pix = None THEN None ELSE Some(Val(b.pix).dhash)]
               ELSE st
    IN  [st1 EXCEPT !.self = _update_direction_state(st.self, current_center),
                    !.ests = Updated(@)]

\* ScanBoxes recording the center of a candidate outside the ROI in the
\* Direction State before it goes on.
RECURSIVE ScanBoxes_track_rejected(_, _, _, _, _)
ScanBoxes_track_rejected(st, boxes, i, t, env) ==
    IF i > Len(boxes) THEN st
    ELSE IF env.ocr_raise_at = i THEN [st EXCEPT !.raised = "ocr", !.pc = "raised"]
    ELSE
      LET b == boxes[i]
          plate == Strip(IF b.text = None THEN <<>> ELSE Val(b.text))
          current_center == CenterOf(b)
          direction == _estimate_direction(st.self, current_center)
          inroi == ~(st.self.roi_enabled /\ ~_point_in_roi(st.self, current_center))
          st1 == [st EXCEPT !.reads = i,
                            !.ests = Append(@, Est(i, st.self, current_center,
                                                   direction, inroi))]
      IN  IF st.self.roi_enabled /\ ~_point_in_roi(st.self, current_center)
          THEN ScanBoxes_track_rejected(
                   [st1 EXCEPT !.self = _update_direction_state(@, current_center)],
                   boxes, i + 1, t, env)
          ELSE IF plate = <<>> \/ Len(plate) < 4
          THEN ScanBoxes_track_rejected(UnreadableStep(st1, b, current_center),
                                        boxes, i + 1, t, env)
          ELSE ReadableStep(st1, plate, current_center, direction, t, env)

\* ScanBoxes taking a text of three characters for readable.
RECURSIVE ScanBoxes_min3(_, _, _, _, _)
ScanBoxes_min3(st, boxes, i, t, env) ==
    IF i > Len(boxes) THEN st
    ELSE IF env.ocr_raise_at = i THEN [st EXCEPT !.raised = "ocr", !.pc = "raised"]
    ELSE
      LET b == boxes[i]
          plate == Strip(IF b.text = None THEN <<>> ELSE Val(b.text))
          current_center == CenterOf(b)
          direction == _estimate_direction(st.self, current_center)
          inroi == ~(st.self.roi_enabled /\ ~_point_in_roi(st.self, current_center))
          st1 == [st EXCEPT !.reads = i,
                            !.ests = Append(@, Est(i, st.self, current_center,
                                                   direction, inroi))]
      IN  IF st.self.roi_enabled /\ ~_point_in_roi(st.self, current_center)
          THEN ScanBoxes_min3(st1, boxes, i + 1, t, env)
          ELSE IF plate = <<>> \/ Len(plate) < 3
          THEN ScanBoxes_min3(UnreadableStep(st1, b, current_center), boxes, i + 1, t, env)
          ELSE ReadableStep(st1, plate, current_center, direction, t, env)

\* Lines 160-194: the loop over the detector's boxes, from box i on.
\* env.ocr_raise_at = i makes ocr.read_text raise on box i.
RECURSIVE ScanBoxes(_, _, _, _, _)
ScanBoxes(st, boxes, i, t, env) ==
    IF i > Len(boxes) THEN st
    ELSE IF env.ocr_raise_at = i THEN [st EXCEPT !.raised = "ocr", !.pc = "raised"]
    ELSE
      LET b == boxes[i]
          plate == Strip(IF b.text = None THEN <<>> ELSE Val(b.text))
          current_center == CenterOf(b)
          direction == _estimate_direction(st.self, current_center)
          inroi == ~(st.self.roi_enabled /\ ~_point_in_roi(st.self, current_center))
          st1 == [st EXCEPT !.reads = i,
                            !.ests = Append(@, Est(i, st.self, current_center,
                                                   direction, inroi))]
      IN  IF st.self.roi_enabled /\ ~_point_in_roi(st.self, current_center)
          THEN ScanBoxes(st1, boxes, i + 1, t, env)
          ELSE IF plate = <<>> \/ Len(plate) < 4
          THEN ScanBoxes(UnreadableStep(st1, b, current_center), boxes, i + 1, t, env)
          ELSE ReadableStep(st1, plate, current_center, direction, t, env)

\* Lines 196-217: after the loop, the unreadable notification.
\* env.lag is the time that passes between the two time.time() reads of
\* lines 203 and 98.
AfterLoop(st, t, env) ==
    IF st.unreadable_box = None \/ ~st.self.notify_unreadable
    THEN [st EXCEPT !.pc = "returned"]
    ELSE
      LET s == st.self
          current_center == CenterOf(Val(st.unreadable_box))
          direction == _estimate_direction(s, current_center)
          d == _unreadable_duplicate(s, st.unreadable_dhash, t)
          asked == ~d.ret /\ st.unreadable_hash # None
          e == IF asked
               THEN _should_emit_unreadable(d.self, Val(st.unreadable_hash), t + env.lag)
               ELSE [self |-> d.self, ret |-> ~d.ret]
          note == Photo(UnreadableCaption(direction), None, env.notify)
          info == [hash |-> st.unreadable_hash, dhash |-> st.unreadable_dhash,
                   t |-> t, dup |-> d.ret, sent |-> e.ret]
          st1 == [st EXCEPT !.self = e.self, !.upath = Some(info),
                            !.lagged = IF asked THEN env.lag ELSE 0,
                            !.ests = Append(@, Est(0, s, current_center, direction, TRUE))]
      IN  IF s.roi_enabled /\ ~_point_in_roi(s, current_center)
          THEN [st EXCEPT !.pc = "returned"]
          ELSE IF ~e.ret
          THEN [st1 EXCEPT !.self = _update_direction_state(e.self, current_center),
                           !.ests = Updated(@),
                           !.pc = "returned"]
          ELSE IF env.notify = "raise"
          THEN [st1 EXCEPT !.drawn = s.debug_draw, !.notif = Append(@, note),
                           !.raised = "notify", !.pc = "raised"]
          ELSE [st1 EXCEPT !.drawn = s.debug_draw, !.notif = Append(@, note),
                           !.self = _update_direction_state(
                                        _record_unreadable(e.self, st.unreadable_dhash, t),
                                        current_center),
                           !.ests = Updated(@),
                           !.pc = "returned"]

\* fr: [size |-> <<w, h>>, boxes |-> what detector.detect returns for it].
\* blanked: how many pixels of the frame handed to the detector the mask
\* has set to zero.
\* env.detect = "raise" makes detector.detect raise.
process_frame(s, fr, t, env) ==
    LET m == IF s.roi_enabled THEN _apply_roi_mask(s, fr.size)
             ELSE [self |-> s, mask |-> None]
        st0 == [StartFrame(m.self) EXCEPT
                   !.mask = m.mask,
                   !.blanked = IF m.mask = None THEN 0
                               ELSE fr.size[1] * fr.size[2] - Cardinality(Val(m.mask))]
    IN  IF env.detect = "raise" THEN [st0 EXCEPT !.raised = "detect", !.pc = "raised"]
        ELSE LET st1 == ScanBoxes(st0, fr.boxes, 1, t, env)
             IN  IF st1.pc = "loop" THEN AfterLoop(st1, t, env) ELSE st1

----------------------------------------------------------------------------
(* Pipeline.__init__ *)

\* The keyword arguments' defaults (lines 26-42), overridden by kw.
Pipeline(rules, kw) ==
    LET arg(name, default) == IF name \in DOMAIN kw THEN kw[name] ELSE default
        axis == arg("direction_axis", "y")
        rect == arg("roi_rect", None)
        poly == arg("roi_polygon", None)
    IN  [rules |-> rules,
         debounce_sec |-> arg("debounce_sec", 15),
         debug_draw |-> arg("debug_draw", FALSE),
         last_seen |-> EmptyDict,
         notify_unreadable |-> arg("notify_unreadable", FALSE),
         unreadable_debounce_sec |-> arg("unreadable_debounce_sec", 10),
         last_unreadable_seen |-> <<>>,
         unreadable_dhash_threshold |-> arg("unreadable_dhash_threshold", 6),
         unreadable_global_cooldown_sec |-> arg("unreadable_global_cooldown_sec", 8),
         _unreadable_memory |-> <<>>,
         _last_unreadable_emit_ts |-> 0,
         direction_enabled |-> arg("direction_enabled", TRUE),
         direction_axis |-> IF axis \in {"x", "y"} THEN axis ELSE "y",
         direction_invert |-> arg("direction_invert", FALSE),
         direction_min_disp |-> Max2(0, arg("direction_min_disp", 20)),
         direction_gate_line |-> arg("direction_gate_line", None),
         _last_center |-> None,
         _last_side |-> None,
         suppress_actuators |-> arg("suppress_actuators", FALSE),
         roi_enabled |-> arg("roi_enabled", FALSE),
         roi_mode |-> arg("roi_mode", "rectangle"),
         roi_rect |-> IF rect # None THEN Val(rect) ELSE <<0, 0, 0, 0>>,
         roi_polygon |-> IF poly # None THEN Val(poly) ELSE <<>>,
         _roi_mask |-> None,
         _roi_mask_size |-> None,
         _roi_dirty |-> TRUE,
         _rect_anchor |-> None]

----------------------------------------------------------------------------
(* Bounds and the inputs the model draws from *)

\* The wall clock at start-up (time.time() is seconds since 1970).
Epoch == 1000
\* How far the clock runs in each specification.
MaxClock == 1
MaxClockDebounce == 4
MaxClockUnreadable == 4

\* Rule files: first cells as typed (lower case, padded), cleaned on load.
pAB12 == <<"A", "B", "1", "2">>
pCD34 == <<"C", "D", "3", "4">>
pZZ99 == <<"Z", "Z", "9", "9">>
pAB1 == <<"A", "B", "1">>
rowab12 == <<" ", "a", "b", "1", "2">>
rowcd34 == <<"c", "d", "3", "4", " ">>
rowblank == <<" ">>

\* The frames are FrameW x FrameH pixels; the ROI rectangle and the boxes
\* are the simulator's (tools/simulator.py), scaled down by 100.
FrameSize == <<12, 10>>
RoiRect == <<2, 3, 6, 7>>

Box(x, y, w, h, text, pix) ==
    [x |-> x, y |-> y, w |-> w, h |-> h, text |-> text, pix |-> pix]
\* center (4, 5): inside the rectangle
BoxIn(text, pix) == Box(3, 4, 2, 2, text, pix)
\* center (6.5, 5): half a pixel right of the rectangle's right edge
BoxEdge(text, pix) == Box(5, 4, 3, 2, text, pix)
\* center (10, 5): right of the rectangle
BoxOut(text, pix) == Box(9, 4, 2, 2, text, pix)

Pix(hash, dhash) == Some([hash |-> hash, dhash |-> dhash])

Frame(boxes) == [size |-> FrameSize, boxes |-> boxes]

\* Adapters that all work.
EnvOk == [detect |-> "ok", ocr_raise_at |-> 0, notify |-> "ok", act |-> "ok", lag |-> 0]

----------------------------------------------------------------------------
(* Observation *)

\* What a finished process_frame call leaves to be seen from outside.
Observe(st) ==
    [pc |-> st.pc, raised |-> st.raised, ret |-> st.ret, reads |-> st.reads,
     emit |-> st.emit, dispatch |-> st.dispatch, notif |-> st.notif,
     acts |-> st.acts, drawn |-> st.drawn, blanked |-> st.blanked,
     upath |-> st.upath, ests |-> st.ests]

NoCall == [Observe(StartFrame(<<>>)) EXCEPT !.pc = "none"]

IsUnreadableNote(n) == n.caption.kind = "unreadable"

SentUnreadable(o) == \E i \in 1..Len(o.notif) : IsUnreadableNote(o.notif[i])

\* last_true: for each plate, the time of the last _should_emit call for
\*   it that returned true.
\* again: the plates for which it returned true more than once.
\* last_unote: the time of the last unreadable notification.
\* prev_unote: the unreadable candidate of the call just before this one,
\*   if that call sent the unreadable notification for it.
RECURSIVE NoteTrue(_, _, _)
NoteTrue(d, calls, i) ==
    IF i > Len(calls) THEN d
    ELSE NoteTrue(IF calls[i].ret THEN Put(d, calls[i].plate, calls[i].t) ELSE d,
                  calls, i + 1)

Record(h, st, t) ==
    [h EXCEPT !.last_true = NoteTrue(@, st.emit, 1),
              !.again = @ \cup {st.emit[i].plate :
                                  i \in {j \in 1..Len(st.emit) :
                                            /\ st.emit[j].ret
                                            /\ st.emit[j].plate \in DOMAIN h.last_true}},
              !.last_unote = IF SentUnreadable(st) THEN Some(t) ELSE @]

NoHist == [last_true |-> EmptyDict, again |-> {}, last_unote |-> None, prev_unote |-> None]

----------------------------------------------------------------------------
(* app/stream.py: RTSPStream *)

\* The stream record holds the object's fields (resize_width,
\* read_timeout_sec, cap, frame, stopped, thread), the acquisition thread's
\* position and locals (tpc, t_frame, since_ok), the caller's position
\* (mpc) and the camera: the connections open, those that deliver frames,
\* whether the source is up, the last connection id and frame number.
\* since_ok is time.time() - last_ok, kept up to read_timeout_sec + 1.
\* decoded, lastpub, rd and fresh are observations: whether cap.read() has
\* ever succeeded, the frame last published, what the last read() saw, and
\* whether the thread has just made a new connection.
\* pix is the memory of the frame buffers, by frame number: whether
\* something was drawn into the buffer since cap.read() filled it, and how
\* many times it was handed to process_frame (counted up to 2).
\* stops counts the calls of stop() (up to 2).

ResizeWidth == 4
ReadTimeoutSec == 2
\* Connection ids and frame numbers go round in 1..NConnIds, 0..NFrames-1.
NConnIds == 3
NFrames == 2

\* The sizes <<w, h>> of the frames the camera delivers.
CameraSizes == {<<ResizeWidth, 3>>, <<2 * ResizeWidth, 6>>}

\* A frame buffer as cap.read() returns it: nothing drawn into it, handed
\* to process_frame no time yet.
FreshPix == [drawn |-> FALSE, procs |-> 0]

RTSPStream(resize_width, read_timeout_sec) ==
    [resize_width |-> resize_width, read_timeout_sec |-> read_timeout_sec,
     cap |-> None, frame |-> None, stopped |-> FALSE, thread |-> "none",
     tpc |-> "none", t_frame |-> None, since_ok |-> 0, mpc |-> "new",
     open |-> {}, live |-> {}, src |-> "up", lastid |-> 0, seq |-> 0,
     decoded |-> FALSE, lastpub |-> None, rd |-> None, fresh |-> FALSE,
     pix |-> [k \in 0..(NFrames - 1) |-> FreshPix], stops |-> 0]

\* self.cap = cv2.VideoCapture(self.url, cv2.CAP_FFMPEG): a connection,
\* open and delivering frames if the source is up.
VideoCapture(st) ==
    LET id == (st.lastid % NConnIds) + 1
    IN  [st EXCEPT !.cap = Some(id), !.lastid = id,
                   !.open = IF st.src = "up" THEN @ \cup {id} ELSE @,
                   !.live = IF st.src = "up" THEN @ \cup {id} ELSE @]

\* self.cap.release()
CapRelease(st) ==
    IF st.cap = None THEN st
    ELSE [st EXCEPT !.open = @ \ {Val(st.cap)}, !.live = @ \ {Val(st.cap)}]

\* start(), with the thread's first statement last_ok = time.time()
StreamStart(st) ==
    [VideoCapture(st) EXCEPT !.stopped = FALSE, !.thread = "alive",
                             !.tpc = "head", !.since_ok = 0, !.mpc = "started"]

\* _update, lines 28-30: while not self.stopped / if self.cap is None: break
LoopHead(st) ==
    IF st.stopped \/ st.cap = None
    THEN [st EXCEPT !.tpc = "done", !.thread = "done", !.fresh = FALSE]
    ELSE [st EXCEPT !.tpc = "read", !.fresh = FALSE]

\* line 31: ok, frame = self.cap.read(), delivering a frame of size sz
CapReadStep(st, sz) ==
    IF Val(st.cap) \in st.live
    THEN [st EXCEPT !.t_frame = Some([seq |-> st.seq, w |-> sz[1], h |-> sz[2]]),
                    !.pix[st.seq] = FreshPix,
                    !.seq = (@ + 1) % NFrames, !.decoded = TRUE, !.tpc = "got"]
    ELSE [st EXCEPT !.tpc = "failed"]

\* Lines 33-38 without the resize.
Rescale_skip(st) == [st EXCEPT !.since_ok = 0, !.tpc = "publish"]

\* lines 33-38: last_ok = time.time() and the resize to resize_width
Rescale(st) ==
    LET f == Val(st.t_frame)
        g == IF st.resize_width > 0 /\ f.w # st.resize_width
             THEN [f EXCEPT !.w = st.resize_width,
                            !.h = (f.h * st.resize_width) \div f.w]
             ELSE f
    IN  [st EXCEPT !.t_frame = Some(g), !.since_ok = 0, !.tpc = "publish"]

\* line 39: self.frame = frame
Publish(st) ==
    [st EXCEPT !.frame = st.t_frame, !.lastpub = st.t_frame, !.tpc = "head"]

\* Line 41 with the reconnect never taken.
TimeoutCheck_never(st) == [st EXCEPT !.tpc = "head"]

\* line 41: if time.time() - last_ok > self.read_timeout_sec
TimeoutCheck(st) ==
    IF st.since_ok > st.read_timeout_sec
    THEN [st EXCEPT !.tpc = "release"]
    ELSE [st EXCEPT !.tpc = "head"]

\* lines 44-47: self.cap.release()
ReconnectRelease(st) == [CapRelease(st) EXCEPT !.tpc = "sleep"]

\* line 48: time.sleep(1.0)
ReconnectSleep(st) ==
    [st EXCEPT !.since_ok = Min2(@ + 1, st.read_timeout_sec + 1), !.tpc = "reopen"]

\* line 49: self.cap = cv2.VideoCapture(...)
ReconnectOpen(st) == [VideoCapture(st) EXCEPT !.tpc = "head", !.fresh = TRUE]

\* read(), lines 51-52
StreamRead(st) ==
    [st EXCEPT !.rd = Some([val |-> st.frame, decoded |-> st.decoded,
                            latest |-> st.lastpub])]

\* stop(), line 55: self.stopped = True
StopSet(st) ==
    [st EXCEPT !.stopped = TRUE, !.mpc = "stop_join", !.stops = Min2(@ + 1, 2)]

\* stop(), lines 56-57: the join returns, the thread ended or the two
\* seconds over while the thread is inside cap.read() or VideoCapture().
JoinReturns(st) == st.thread = "done" \/ st.tpc \in {"read", "reopen"}

\* stop(), lines 58-62: self.cap.release()
StopRelease(st) == [CapRelease(st) EXCEPT !.mpc = "stop_returned"]

----------------------------------------------------------------------------
(* app/main.py: the calibration handlers *)

\* on_mouse for a left button press at (mx, my) (lines 137-162); ctrl is
\* flags & cv2.EVENT_FLAG_CTRLKEY.
on_mouse(s, mx, my, ctrl) ==
    IF ctrl
    THEN [s EXCEPT !.direction_gate_line =
                       Some(IF s.direction_axis = "y" THEN my ELSE mx)]
    ELSE
      LET s1 == [s EXCEPT !.roi_enabled = TRUE, !._roi_dirty = TRUE]
      IN  IF s.roi_mode = "rectangle"
          THEN IF s._rect_anchor = None
               THEN [s1 EXCEPT !._rect_anchor = Some(<<mx, my>>),
                               !.roi_rect = <<mx, my, mx, my>>]
               ELSE [s1 EXCEPT !.roi_rect = <<Val(s._rect_anchor)[1],
                                              Val(s._rect_anchor)[2], mx, my>>,
                               !._rect_anchor = None]
          ELSE [s1 EXCEPT !.roi_polygon = Append(@, <<mx, my>>)]

MinDispStep == 2
MinDispCap == 200

\* The key handling of lines 185-207; a key without a binding changes
\* nothing ("w" saves the settings and leaves the pipeline alone).
on_key(s, key) ==
    CASE key = "x" -> [s EXCEPT !.direction_axis = IF @ = "y" THEN "x" ELSE "y",
                                !._last_center = None, !._last_side = None]
      [] key = "i" -> [s EXCEPT !.direction_invert = ~@]
      [] key = "+" -> [s EXCEPT !.direction_min_disp = Min2(MinDispCap, @ + MinDispStep)]
      [] key = "-" -> [s EXCEPT !.direction_min_disp = Max2(0, @ - MinDispStep)]
      [] key = "t" -> [s EXCEPT !.roi_enabled = ~@, !._roi_dirty = TRUE]
      [] key = "p" -> [s EXCEPT !.roi_mode = IF @ = "rectangle" THEN "polygon"
                                             ELSE "rectangle",
                                !._roi_dirty = TRUE]
      [] key = "n" -> [s EXCEPT !.roi_polygon = <<>>, !.roi_rect = <<0, 0, 0, 0>>,
                                !._rect_anchor = None, !._roi_dirty = TRUE]
      [] OTHER -> s

----------------------------------------------------------------------------
(* Actions *)

\* One pass of the main loop through pipeline.process_frame (main.py lines
\* 166-174); an exception out of it ends the loop (lines 216-219).
\* The clock stops at Epoch + horizon.
ProcessFrame(fr, env, horizon) ==
    /\ loop = "read"
    /\ LET st == process_frame(self, fr, now, env)
       IN  /\ now + st.lagged <= Epoch + horizon
           /\ self' = st.self
           /\ now' = now + st.lagged
           /\ loop' = IF st.raised # "none" THEN "stopped" ELSE "display"
           /\ frame' = fr
           /\ out' = Observe(st)
           /\ hist' = Record(hist, st, now)
    /\ UNCHANGED <<dec, stream, main>>

\* The rest of the loop body (lines 176-215), back to the loop head: the
\* frame and what was done with it are out of scope.
EndIteration ==
    /\ loop = "display"
    /\ loop' = "read"
    /\ frame' = Frame(<<>>)
    /\ out' = NoCall
    /\ hist' = [hist EXCEPT !.prev_unote = IF SentUnreadable(out) THEN out.upath ELSE None]
    /\ UNCHANGED <<self, now, dec, stream, main>>

\* A left click in the window, delivered while the loop waits in
\* cv2.waitKey (line 182).
OnMouse(mx, my, ctrl) ==
    /\ loop = "display"
    /\ self' = on_mouse(self, mx, my, ctrl)
    /\ UNCHANGED <<now, loop, frame, out, hist, dec, stream, main>>

\* The rest of the loop body when cv2.waitKey returns a key other than
\* "q" (lines 182-207), back to the loop head.
KeyPress(key) ==
    /\ loop = "display"
    /\ self' = on_key(self, key)
    /\ loop' = "read"
    /\ frame' = Frame(<<>>)
    /\ out' = NoCall
    /\ hist' = [hist EXCEPT !.prev_unote = IF SentUnreadable(out) THEN out.upath ELSE None]
    /\ UNCHANGED <<now, dec, stream, main>>

\* Time passes between two frames.
Tick(horizon) ==
    /\ loop = "read"
    /\ now < Epoch + horizon
    /\ now' = now + 1
    /\ UNCHANGED <<self, loop, frame, out, hist, dec, stream, main>>

\* A direct call of self._point_in_roi(center), center given doubled.
PointCall(center) ==
    /\ dec' = Some([center |-> center, result |-> _point_in_roi(self, center)])
    /\ UNCHANGED <<self, now, loop, frame, out, hist, stream, main>>

\* A direct call of decide(rules, plate).
DecideCall(plate) ==
    /\ dec' = Some([plate |-> plate, result |-> decide(self.rules, plate)])
    /\ UNCHANGED <<self, now, loop, frame, out, hist, stream, main>>

\* The root logger's TelegramLogHandler (main.py lines 65-70) and the
\* notifier it forwards to:
\*   installed, level: whether run() added the handler, and its level;
\*   token: whether the notifier has a bot token (it is enabled, line 65);
\*   targets: how many chats send_debug_text writes to;
\*   stack: the emit calls in progress, the innermost last, each with the
\*     number of chunks of its message and the chunk and chat up next;
\*   sends, budget: the requests made for the record being forwarded (an
\*     observation, counted up to MaxSends), and chunks times chats for it.
WARNING == 30
LogLevels == {20, 30, 40}

TelegramLogHandler(installed, level, token, targets) ==
    [installed |-> installed, level |-> level, token |-> token,
     targets |-> targets, stack |-> <<>>, sends |-> 0, budget |-> 0]

NoLog == TelegramLogHandler(FALSE, 20, FALSE, 0)

\* emit, lines 12-17: the prefix, and range(0, len(msg) or 1, max_len)
MaxLen == 3800
PrefixLen == 7
Chunks(formatted_len) ==
    LET n == PrefixLen + 1 + formatted_len
    IN  (n + MaxLen - 1) \div MaxLen

\* The innermost emit goes on to its next chat, its next chunk, or returns.
Advance(stack, targets) ==
    LET top == stack[Len(stack)]
        rest == SubSeq(stack, 1, Len(stack) - 1)
    IN  IF top.j < targets THEN Append(rest, [top EXCEPT !.j = @ + 1])
        ELSE IF top.i < top.chunks THEN Append(rest, [top EXCEPT !.i = @ + 1, !.j = 1])
        ELSE rest

\* Handler.handle for a record of the given level and formatted length:
\* emit is entered, under the handler's re-entrant lock, when the handler
\* is installed and the level passes; with no chat, or past the depth of
\* calls the interpreter allows (RecursionError, caught at line 20 of the
\* emit it is raised in), it is over at once.
Handle(lg, level, formatted_len, limit) ==
    IF ~lg.installed \/ level < lg.level THEN lg
    ELSE IF Len(lg.stack) >= limit
    THEN [lg EXCEPT !.stack = SubSeq(@, 1, Len(@) - 1)]
    ELSE IF lg.targets = 0 THEN lg
    ELSE [lg EXCEPT !.stack = Append(@, [chunks |-> Chunks(formatted_len), i |-> 1, j |-> 1])]

\* send_debug_text's next _send call (notify.py lines 53-54, 17-38):
\* nothing without a token; else the request made, and on an API error or
\* a failed request the
\* logging.warning of line 33 or 37, a record of about warning_len
\* characters that the root logger hands to its handlers before _send
\* returns.
SendDebugStep(lg, outcome, warning_len, limit, cap) ==
    LET sent == [lg EXCEPT !.sends = Min2(@ + 1, cap),
                           !.stack = Advance(@, lg.targets)]
    IN  IF ~lg.token THEN [lg EXCEPT !.stack = Advance(@, lg.targets)]
        ELSE IF outcome = "ok" THEN sent
        ELSE IF Len(lg.stack) >= limit
        THEN [sent EXCEPT !.stack = SubSeq(lg.stack, 1, Len(lg.stack) - 1)]
        ELSE Handle(sent, WARNING, warning_len, limit)

\* The locals of run() when the main loop starts (main.py lines 118-133),
\* with what it was started with: camera.skip_frames, --display (or
\* detector.debug_draw) and --calibrate.
\*   frame_count is kept modulo skip, all the loop asks of it;
\*   held is the frame (its number) the local `frame` refers to;
\*   why is how the loop ended ("signal", "quit", "error"), an observation;
\*   log is the log handler installed at lines 65-70.
RunLocals(skip_frames, display, calibrate) ==
    [stopping |-> FALSE, frame_count |-> 0, skip |-> Max2(1, skip_frames),
     display |-> display, calibrate |-> calibrate, held |-> None, why |-> "none",
     log |-> NoLog]

\* The pipeline and the stream as constructed (main.py lines 38 and 84).
InitAll(pipeline, rtsp, locals) ==
    /\ self = pipeline
    /\ now = Epoch
    /\ loop = "read"
    /\ frame = Frame(<<>>)
    /\ out = NoCall
    /\ hist = NoHist
    /\ dec = None
    /\ stream = rtsp
    /\ main = locals

InitBoth(pipeline, rtsp) == InitAll(pipeline, rtsp, RunLocals(1, FALSE, FALSE))

InitWith(pipeline) == InitBoth(pipeline, RTSPStream(ResizeWidth, ReadTimeoutSec))

----------------------------------------------------------------------------
(* Specification Spec: readable plates, dispatch and adapter failures *)

\* Rule files under which the plate AB12 is decided allow (and is on the
\* watch list as well), watch, ignore and unknown; CD34 is on the deny and
\* on the allow list; the short text AB1 is on the allow list.
RuleFiles ==
    {[allowed |-> {rowab12, rowcd34, pAB1}, denied |-> {rowcd34},
      watchlist |-> {<<rowab12, <<"g", "1">>>>}, ignored |-> {}],
     [allowed |-> {rowcd34, pAB1}, denied |-> {rowcd34},
      watchlist |-> {<<rowab12, <<"g", "1">>>>}, ignored |-> {}],
     [allowed |-> {rowab12, rowcd34, pAB1}, denied |-> {rowcd34},
      watchlist |-> {}, ignored |-> {rowab12}],
     [allowed |-> {rowcd34, pAB1}, denied |-> {rowcd34},
      watchlist |-> {}, ignored |-> {}]}

Load(f) == load_rules(f.allowed, f.denied, f.watchlist, f.ignored)

DispatchBoxes ==
    {BoxIn(Some(pAB12), None), BoxIn(Some(pCD34), None),
     BoxIn(Some(pAB1), Pix("h1", 0)), BoxIn(None, None),
     BoxOut(Some(pAB12), None), BoxOut(Some(pAB1), Pix("h1", 0)),
     BoxEdge(Some(pAB12), None)}

DispatchFrames ==
    {Frame(<<>>)} \cup {Frame(<<b>>) : b \in DispatchBoxes}
    \cup {Frame(<<a, b>>) : a \in DispatchBoxes, b \in DispatchBoxes}

FaultFrames ==
    {Frame(<<BoxIn(Some(pAB12), None)>>),
     Frame(<<BoxIn(Some(pCD34), None)>>),
     Frame(<<BoxIn(Some(pAB1), Pix("h1", 0))>>),
     Frame(<<BoxOut(Some(pAB12), None), BoxIn(Some(pAB12), None)>>),
     Frame(<<BoxIn(Some(pAB1), Pix("h1", 0)), BoxIn(Some(pCD34), None)>>)}

Faults ==
    {[EnvOk EXCEPT !.detect = "raise"], [EnvOk EXCEPT !.ocr_raise_at = 1],
     [EnvOk EXCEPT !.ocr_raise_at = 2], [EnvOk EXCEPT !.notify = "fail"],
     [EnvOk EXCEPT !.notify = "raise"], [EnvOk EXCEPT !.act = "raise"]}

\* suppress_actuators and notify_unreadable
Switches == {<<FALSE, TRUE>>, <<TRUE, TRUE>>, <<FALSE, FALSE>>}

\* The configurations run: every rule file with actuators and unreadable
\* notifications on, the rule files with a watch list under suppression,
\* and the one that allows AB12 without unreadable notifications.
Configs ==
    {<<f, sw>> \in RuleFiles \X Switches :
        \/ sw = <<FALSE, TRUE>>
        \/ sw = <<TRUE, TRUE>> /\ f.watchlist # {}
        \/ sw = <<FALSE, FALSE>> /\ pAB12 \in Load(f).allowed \ Load(f).ignored}

Init ==
    \E c \in Configs :
      LET sup == c[2][1]
          nu == c[2][2]
      IN
        InitWith(Pipeline(Load(c[1]),
            [debounce_sec |-> 0, suppress_actuators |-> sup, notify_unreadable |-> nu,
             unreadable_debounce_sec |-> 1, unreadable_global_cooldown_sec |-> 1,
             direction_min_disp |-> 1,
             roi_enabled |-> TRUE, roi_rect |-> Some(RoiRect)]))

Next ==
    \/ \E fr \in DispatchFrames : ProcessFrame(fr, EnvOk, MaxClock)
    \/ \E fr \in FaultFrames, env \in Faults : ProcessFrame(fr, env, MaxClock)
    \/ EndIteration
    \/ Tick(MaxClock)

Spec == Init /\ [][Next]_vars

----------------------------------------------------------------------------
(* Claims checked under Spec *)

Called == loop \in {"display", "stopped"}

\* (read_text(roi) or "").strip()
TextOf(b) == Strip(IF b.text = None THEN <<>> ELSE Val(b.text))

Gate(i) == out.acts[i].actuator = "gate"
Alarm(i) == out.acts[i].actuator = "alarm"

\* C3 (as claimed): gate.open_gate(P) is invoked exactly when the call
\* dispatches a readable plate P decided allow with the debounce permitting
\* and suppression off, then exactly once and without the alarm;
\* alarm.trigger(P, reason = "deny_list") exactly when the same holds with
\* deny, then exactly once and without the gate; no actuator otherwise.
C3_ActuationExactlyOnDispatch ==
    Called =>
      LET d == out.dispatch
          on == d # None /\ ~self.suppress_actuators
      IN  /\ (on /\ Val(d).decision = "allow") =>
                (Len(out.acts) = 1 /\ Gate(1) /\ out.acts[1].plate = Val(d).plate)
          /\ (on /\ Val(d).decision = "deny") =>
                (/\ Len(out.acts) = 1 /\ Alarm(1) /\ out.acts[1].plate = Val(d).plate
                 /\ out.acts[1].reason = "deny_list")
          /\ ~(on /\ Val(d).decision \in {"allow", "deny"}) => out.acts = <<>>

\* C4: one process_frame call makes at most one notification and at most
\* one actuator invocation.
C4_AtMostOneEvent == Len(out.notif) <= 1 /\ Len(out.acts) <= 1

\* A frame of an unreadable candidate followed by a readable one, with
\* unreadable notifications enabled: one notification, one actuation.
C4_Witness ==
    /\ loop = "display" /\ self.notify_unreadable
    /\ Len(frame.boxes) = 2
    /\ Len(TextOf(frame.boxes[1])) < 4
    /\ out.reads = 2
    /\ Len(out.notif) = 1 /\ Len(out.acts) = 1

\* The center (kept doubled) lies outside the ROI rectangle, or outside the
\* ROI polygon of three points or more.
CenterOutsideRoi(s, b) ==
    LET c == CenterOf(b)
    IN  IF s.roi_mode = "rectangle"
        THEN \/ c[1] < 2 * Min2(s.roi_rect[1], s.roi_rect[3])
             \/ c[1] > 2 * Max2(s.roi_rect[1], s.roi_rect[3])
             \/ c[2] < 2 * Min2(s.roi_rect[2], s.roi_rect[4])
             \/ c[2] > 2 * Max2(s.roi_rect[2], s.roi_rect[4])
        ELSE /\ Len(s.roi_polygon) >= 3
             /\ ~PointPolygonTestNonNeg(
                    [i \in 1..Len(s.roi_polygon) |->
                        <<2 * s.roi_polygon[i][1], 2 * s.roi_polygon[i][2]>>], c)

\* C5 (as claimed): with the ROI enabled, a frame all of whose candidates
\* have their center outside the ROI gives no decision, no actuation and no
\* notification.
C5_OutsideRoiNothingHappens ==
    (/\ Called /\ self.roi_enabled /\ out.raised = "none"
     /\ frame.boxes # <<>>
     /\ \A i \in 1..Len(frame.boxes) : CenterOutsideRoi(self, frame.boxes[i]))
    => (out.ret = None /\ out.acts = <<>> /\ out.notif = <<>>)

\* The pixel that holds the center is not one of the ROI rectangle's
\* pixels (both corners included), or not inside the ROI polygon of three
\* points or more.
CenterPixelOutsideRoi(s, b) ==
    LET px == (2 * b.x + b.w) \div 2
        py == (2 * b.y + b.h) \div 2
    IN  IF s.roi_mode = "rectangle"
        THEN <<px, py>> \notin
                 (Min2(s.roi_rect[1], s.roi_rect[3])..Max2(s.roi_rect[1], s.roi_rect[3]))
                 \X (Min2(s.roi_rect[2], s.roi_rect[4])..Max2(s.roi_rect[2], s.roi_rect[4]))
        ELSE /\ Len(s.roi_polygon) >= 3
             /\ ~PointPolygonTestNonNeg(s.roi_polygon, <<px, py>>)

\* C5 (amended): with the ROI enabled, a frame all of whose candidates have
\* the pixel of their center outside the ROI gives no decision, no
\* actuation and no notification, whatever the OCR returns for them and
\* whether or not notify_unreadable is set.
C5_PixelOutsideRoiNothingHappens ==
    (/\ Called /\ self.roi_enabled /\ out.raised = "none"
     /\ frame.boxes # <<>>
     /\ \A i \in 1..Len(frame.boxes) : CenterPixelOutsideRoi(self, frame.boxes[i]))
    => (out.ret = None /\ out.acts = <<>> /\ out.notif = <<>>)

\* Two candidates outside, one with an allow-listed text and one with a
\* short text, with unreadable notifications enabled.
C5_Witness ==
    /\ loop = "display" /\ self.roi_enabled /\ self.notify_unreadable
    /\ Len(frame.boxes) = 2 /\ out.reads = 2
    /\ \A i \in 1..2 : CenterPixelOutsideRoi(self, frame.boxes[i])
    /\ decide(self.rules, TextOf(frame.boxes[1])) = "allow"
    /\ Len(TextOf(frame.boxes[2])) < 4
    /\ out.ret = None /\ out.notif = <<>>

\* The notification _act is to send for a dispatched plate.
DispatchNote(s, d) ==
    [caption |-> PlateCaption(d.plate, d.direction, d.decision),
     group |-> IF d.decision = "watch" /\ d.plate \in DOMAIN s.rules.watchlist
               THEN s.rules.watchlist[d.plate] ELSE None]

StripResult(n) == [caption |-> n.caption, group |-> n.group]

\* C6: while suppress_actuators is set no call invokes the gate or the
\* alarm, and every dispatched plate's notification is still sent, with the
\* caption and the group it has without suppression.
C6_SuppressionKeepsNotification ==
    (Called /\ self.suppress_actuators) =>
        /\ out.acts = <<>>
        /\ out.dispatch # None =>
              (/\ Len(out.notif) = 1
               /\ StripResult(out.notif[1]) = DispatchNote(self, Val(out.dispatch)))

C6_Witness ==
    /\ loop = "display" /\ self.suppress_actuators
    /\ out.dispatch # None /\ Val(out.dispatch).decision = "allow"
    /\ Len(out.notif) = 1 /\ out.acts = <<>>

\* C7 (as claimed): no failure of an adapter escapes process_frame, and the
\* orchestrator goes on to the next frame.
C7_NoAdapterFailureEscapes == out.raised = "none" /\ loop # "stopped"

\* C8 (as claimed): for every dispatched plate the actuator is invoked or
\* not by the decision and the suppression alone, whatever the notifier did
\* (delivered, failed to deliver, raised); and the notification is sent
\* whatever the actuator did.
C8_ActuationIndependentOfNotifier ==
    (Called /\ out.dispatch # None) =>
        /\ Len(out.notif) = 1
        /\ \A r \in {"ok", "fail", "raise"} :
              out.notif[1].result = r =>
                 ((out.acts # <<>>) <=>
                    (Val(out.dispatch).decision \in {"allow", "deny"}
                     /\ ~self.suppress_actuators))

----------------------------------------------------------------------------
(* Specification SpecDebounce: the readable-plate debounce over time *)

DebounceFrames ==
    {Frame(<<BoxIn(Some(pAB12), None)>>), Frame(<<BoxIn(Some(pCD34), None)>>),
     Frame(<<BoxIn(None, None), BoxIn(Some(pAB12), None)>>)}

InitDebounce ==
    \E f \in RuleFiles, deb \in {1, 2} :
        InitWith(Pipeline(Load(f), [debounce_sec |-> deb]))

NextDebounce ==
    \/ \E fr \in DebounceFrames : ProcessFrame(fr, EnvOk, MaxClockDebounce)
    \/ EndIteration
    \/ Tick(MaxClockDebounce)

SpecDebounce == InitDebounce /\ [][NextDebounce]_vars

\* C1: a _should_emit call for plate P returns true exactly when no earlier
\* call for P returned true within the preceding debounce_sec seconds (none
\* at all, or the last one more than debounce_sec ago); so two emissions of
\* one plate are always more than debounce_sec apart.
C1_DebounceWindow ==
    [][loop = "read" =>
         \A i \in 1..Len(out'.emit) :
            LET e == out'.emit[i]
                before == Get(hist.last_true, e.plate)
            IN  e.ret <=> (before = None \/ e.t - Val(before) > self.debounce_sec)
      ]_vars

\* A plate emitted for the second time after its window, while another
\* plate has been seen as well.
C1_Witness ==
    /\ loop = "display"
    /\ Len(out.emit) = 1 /\ out.emit[1].ret
    /\ out.emit[1].plate \in hist.again
    /\ Cardinality(DOMAIN hist.last_true) = 2

----------------------------------------------------------------------------
(* Specification SpecDecide: decide as a function of rule files and text *)

DecideRows == {rowab12, rowcd34, rowblank}
DecideWatchRows == {<<rowab12, <<"g", "1">>>>, <<rowcd34, <<" ">>>>}
DecideTexts ==
    {<<>>, <<" ">>, <<" ", " ">>, pAB12, <<"a", "b", "1", "2">>, pCD34,
     <<" ", "C", "D", "3", "4">>, pZZ99}

InitDecide ==
    \E a \in SUBSET DecideRows, d \in SUBSET DecideRows, i \in SUBSET DecideRows,
       w \in SUBSET DecideWatchRows :
        InitWith(Pipeline(load_rules(a, d, w, i), <<>>))

NextDecide == \E plate \in DecideTexts : DecideCall(plate)

SpecDecide == InitDecide /\ [][NextDecide]_vars

IsBlank(text) == \A i \in 1..Len(text) : text[i] = " "

\* The reference decision of the claim.
ReferenceDecision(rules, text) ==
    CASE IsBlank(text) -> "unknown"
      [] ~IsBlank(text) /\ Upper(text) \in rules.ignored -> "ignore"
      [] ~IsBlank(text) /\ Upper(text) \in rules.denied \ rules.ignored -> "deny"
      [] ~IsBlank(text) /\ Upper(text) \in rules.allowed \ (rules.denied \cup rules.ignored)
            -> "allow"
      [] ~IsBlank(text) /\ Upper(text) \in
            (DOMAIN rules.watchlist) \ (rules.allowed \cup rules.denied \cup rules.ignored)
            -> "watch"
      [] OTHER -> "unknown"

\* C2: decide gives unknown for an empty or blank text, and otherwise the
\* first of ignore, deny, allow, watch whose list holds the upper-cased
\* text, unknown when none does.
C2_DecidePrecedence ==
    dec # None => Val(dec).result = ReferenceDecision(self.rules, Val(dec).plate)

\* A plate on the deny and the allow list, decided deny.
C2_Witness ==
    /\ dec # None
    /\ Upper(Val(dec).plate) \in self.rules.denied \cap self.rules.allowed
    /\ Upper(Val(dec).plate) \notin self.rules.ignored
    /\ Val(dec).result = "deny"

----------------------------------------------------------------------------
(* Specification SpecUnreadable: the unreadable path over time *)

\* Perceptual hashes at Hamming distances 2, 7 and 9 of each other.
DHashes == {0, 3, 1016}

UnreadableBoxes ==
    {BoxIn(None, Pix("h1", 0)), BoxIn(None, Pix("h2", 3)),
     BoxIn(None, Pix("h1", 1016)), BoxIn(None, None)}

UnreadableFrames ==
    {Frame(<<b>>) : b \in UnreadableBoxes}
    \cup {Frame(<<BoxIn(Some(pAB1), Pix("h2", 3)), BoxIn(Some(pCD34), None)>>)}

\* unreadable_debounce_sec, unreadable_global_cooldown_sec,
\* unreadable_dhash_threshold
UnreadableConfigs == {<<1, 1, 2>>, <<1, 2, 6>>, <<2, 1, 6>>}

\* The frame whose processing the adapters disturb.
UnreadableFaultFrame == Frame(<<BoxIn(None, Pix("h2", 3))>>)

UnreadableFaults ==
    {[EnvOk EXCEPT !.lag = 1], [EnvOk EXCEPT !.notify = "fail"],
     [EnvOk EXCEPT !.notify = "raise"]}

InitUnreadable ==
    \E c \in UnreadableConfigs :
        InitWith(Pipeline(Load(CHOOSE f \in RuleFiles : pAB12 \in Load(f).ignored),
            [notify_unreadable |-> TRUE, unreadable_debounce_sec |-> c[1],
             unreadable_global_cooldown_sec |-> c[2],
             unreadable_dhash_threshold |-> c[3]]))

NextUnreadable ==
    \/ \E fr \in UnreadableFrames : ProcessFrame(fr, EnvOk, MaxClockUnreadable)
    \/ \E env \in UnreadableFaults :
          ProcessFrame(UnreadableFaultFrame, env, MaxClockUnreadable)
    \/ EndIteration
    \/ Tick(MaxClockUnreadable)

SpecUnreadable == InitUnreadable /\ [][NextUnreadable]_vars

\* C9: an unreadable notification is sent only when the one before it, if
\* any, was sent at least unreadable_global_cooldown_sec earlier, whatever
\* the hashes of the regions in between.
C9_GlobalCooldown ==
    [][(loop = "read" /\ SentUnreadable(out') /\ hist.last_unote # None)
         => now - Val(hist.last_unote) >= self.unreadable_global_cooldown_sec
      ]_vars

\* Two notifications exactly the cooldown apart, for regions that differ in
\* both hashes.
C9_Witness ==
    /\ loop = "display" /\ SentUnreadable(out)
    /\ hist.prev_unote # None
    /\ Val(out.upath).t - Val(hist.prev_unote).t = self.unreadable_global_cooldown_sec
    /\ Val(out.upath).hash # Val(hist.prev_unote).hash
    /\ Val(out.upath).dhash # Val(hist.prev_unote).dhash

\* The retention window of _unreadable_duplicate.
RetentionWindow(s) ==
    Max2(s.unreadable_debounce_sec, s.unreadable_global_cooldown_sec) * 3

\* The call just made took an unreadable candidate with a perceptual hash
\* to the duplicate check, and the call before it sent the notification
\* for a candidate with a perceptual hash: first, second.
PairOf(h, o) == <<Val(h.prev_unote), Val(o.upath)>>
IsPair(h, o) ==
    /\ h.prev_unote # None /\ Val(h.prev_unote).dhash # None
    /\ o.upath # None /\ Val(o.upath).dhash # None

\* The second of a pair is within the threshold of the first and inside
\* the retention window.
NearFirst(s, pr) ==
    /\ _hamming(Val(pr[1].dhash), Val(pr[2].dhash)) <= s.unreadable_dhash_threshold
    /\ pr[2].t - pr[1].t <= RetentionWindow(s)

\* The second is farther than the threshold from every remembered hash and
\* the global cooldown has elapsed.
FarFromAll(s, pr) ==
    /\ \A i \in 1..Len(s._unreadable_memory) :
          pr[2].t - s._unreadable_memory[i][2] <= RetentionWindow(s)
          => _hamming(Val(pr[2].dhash), s._unreadable_memory[i][1])
                 > s.unreadable_dhash_threshold
    /\ pr[2].t - s._last_unreadable_emit_ts >= s.unreadable_global_cooldown_sec

\* The exact hash of the second was not emitted within the preceding
\* unreadable_debounce_sec, at the time t of the debounce check.
ExactHashFree(s, pr, t) ==
    \/ ~HasKey(s.last_unreadable_seen, Val(pr[2].hash))
    \/ t - TsOf(s.last_unreadable_seen, Val(pr[2].hash)) > s.unreadable_debounce_sec

----------------------------------------------------------------------------
(* Claims on the return value and the scan order, under Spec *)

\* The candidate's center pixel is in the ROI (or the ROI is off).
InRoi(s, b) == ~s.roi_enabled \/ ~CenterPixelOutsideRoi(s, b)

Readable(b) == Len(TextOf(b)) >= 4

\* The index of the first readable in-ROI candidate in scan order, or 0.
FirstReadableIdx(s, boxes) ==
    LET hits == {i \in 1..Len(boxes) : InRoi(s, boxes[i]) /\ Readable(boxes[i])}
    IN  IF hits = {} THEN 0 ELSE CHOOSE i \in hits : \A j \in hits : i <= j

\* C11 (as claimed): process_frame returns (P, D) exactly when P is the text
\* of the first readable in-ROI candidate, D = decide(rules, P) and P was
\* dispatched in this call; in every other case, a debounced plate
\* included, it returns absent.
C11_ReturnsIffDispatched ==
    loop = "display" =>
      LET k == FirstReadableIdx(self, frame.boxes)
      IN  IF k # 0 /\ out.dispatch # None
          THEN out.ret = Some(<<TextOf(frame.boxes[k]),
                                decide(self.rules, TextOf(frame.boxes[k]))>>)
          ELSE out.ret = None

----------------------------------------------------------------------------
(* Specification SpecStream: the frame source, its thread and its caller *)

pvars == <<self, now, loop, frame, out, hist, dec, main>>

\* The caller: start(), read(), stop() (main.py lines 38, 167, 219).
Start ==
    /\ stream.mpc = "new"
    /\ stream' = StreamStart(stream)
    /\ UNCHANGED pvars

Read ==
    /\ stream.mpc \in {"new", "started", "stop_returned"}
    /\ stream' = StreamRead(stream)
    /\ UNCHANGED pvars

Stop ==
    /\ \/ stream.mpc = "started" /\ stream' = StopSet(stream)
       \/ stream.mpc = "stop_join" /\ JoinReturns(stream)
            /\ stream' = [stream EXCEPT !.mpc = "stop_release"]
       \/ stream.mpc = "stop_release" /\ stream' = StopRelease(stream)
    /\ UNCHANGED pvars

\* One step of the acquisition thread (_update).
UpdateStep ==
    /\ stream.thread = "alive"
    /\ \/ stream.tpc = "head" /\ stream' = LoopHead(stream)
       \/ stream.tpc = "read" /\ \E sz \in CameraSizes : stream' = CapReadStep(stream, sz)
       \/ stream.tpc = "got" /\ stream' = Rescale(stream)
       \/ stream.tpc = "publish" /\ stream' = Publish(stream)
       \/ stream.tpc = "failed" /\ stream' = TimeoutCheck(stream)
       \/ stream.tpc = "release" /\ stream' = ReconnectRelease(stream)
       \/ stream.tpc = "sleep" /\ stream' = ReconnectSleep(stream)
       \/ stream.tpc = "reopen" /\ stream' = ReconnectOpen(stream)

Update == UpdateStep /\ UNCHANGED pvars

\* A second passes.
StreamTick ==
    /\ stream.since_ok <= stream.read_timeout_sec
    /\ stream' = [stream EXCEPT !.since_ok = @ + 1]
    /\ UNCHANGED pvars

\* The camera or the network goes down: the connections deliver nothing
\* more; or it comes back, for connections made from then on.
SourceDown ==
    /\ stream.src = "up"
    /\ stream' = [stream EXCEPT !.src = "down", !.live = {}]
    /\ UNCHANGED pvars

SourceUp ==
    /\ stream.src = "down"
    /\ stream' = [stream EXCEPT !.src = "up"]
    /\ UNCHANGED pvars

InitStream ==
    \E rw \in {0, ResizeWidth} :
        InitBoth(Pipeline(Load(CHOOSE f \in RuleFiles : f.ignored # {}), <<>>),
                 RTSPStream(rw, ReadTimeoutSec))

NextStream ==
    \/ Start
    \/ Read
    \/ Stop
    \/ Update
    \/ StreamTick
    \/ SourceDown
    \/ SourceUp

SpecStream == InitStream /\ [][NextStream]_vars

\* C12 (as claimed): once stop() has returned, no connection opened by the
\* frame source is open, then or later.
C12_StopReleasesConnection == stream.mpc = "stop_returned" => stream.open = {}

\* The sizes a camera frame has once rescaled to width rw (0: as delivered).
ScaledSizes(rw) ==
    IF rw > 0 THEN {<<rw, (sz[2] * rw) \div sz[1]>> : sz \in CameraSizes}
    ELSE CameraSizes

WholeFrame(st, f) == <<f.w, f.h>> \in ScaledSizes(st.resize_width)

\* C13 (as claimed): read() returns the sentinel exactly while no frame has
\* been decoded since construction, and otherwise the latest published
\* frame, whole.
C13_ReadSentinelUntilDecoded ==
    stream.rd # None =>
      LET r == Val(stream.rd)
      IN  /\ r.val = None <=> ~r.decoded
          /\ r.val # None => (r.val = r.latest /\ WholeFrame(stream, Val(r.val)))

\* C13 (amended): read() returns the sentinel exactly while no frame has
\* been published, and otherwise the latest published frame, whole:
\* decoded and rescaled to resize_width.
C13_ReadSentinelUntilPublished ==
    stream.rd # None =>
      LET r == Val(stream.rd)
      IN  /\ r.val = None <=> r.latest = None
          /\ r.val # None => (r.val = r.latest /\ WholeFrame(stream, Val(r.val)))

\* A read, while the thread holds a newer frame not yet published, of a
\* frame that the camera delivered wider than resize_width.
C13_Witness ==
    /\ stream.rd # None /\ Val(stream.rd).val # None
    /\ stream.resize_width > 0
    /\ stream.tpc = "publish" /\ stream.t_frame # Val(stream.rd).val
    /\ stream.mpc = "started"

----------------------------------------------------------------------------
(* Specification SpecStreamLive: SpecStream with a thread that keeps *)
(* running (its blocking calls return) and a clock that keeps going  *)

SpecStreamLive ==
    InitStream /\ [][NextStream]_vars /\ WF_vars(Update) /\ WF_vars(StreamTick)

\* More than read_timeout_sec since the last successful read.
ReadTimedOut == stream.since_ok > stream.read_timeout_sec

\* The thread publishes a frame.
Publishes == stream.tpc = "publish" /\ stream'.tpc = "head"

\* C14: the loop ends only once stop is requested; whenever reads have
\* failed for longer than read_timeout_sec the thread reconnects, unless a
\* read succeeds or stop ends the loop first, and so again and again; and
\* if from some time on the source is up and stop is not requested, frames
\* are published again and again.
C14_ReconnectLiveness ==
    /\ [](stream.thread = "done" => stream.stopped)
    /\ []((ReadTimedOut /\ stream.thread = "alive")
            => <>(stream.fresh \/ stream.since_ok = 0 \/ stream.thread = "done"))
    /\ (<>[](stream.src = "up" /\ stream.mpc = "started")) => []<><<Publishes>>_vars

\* A frame decoded on the third connection, after two reconnects.
C14_Witness ==
    /\ stream.lastid = 3 /\ stream.tpc = "publish"
    /\ ~stream.stopped /\ stream.src = "up"

----------------------------------------------------------------------------
(* Specification SpecRoi: the ROI filter *)

\* Corner coordinates of the rectangles, and the points asked about: every
\* half pixel from 0 to RoiMax + 1.
RoiCorners == {1, 3}
RoiMax == 3
RoiPoints == (0..(2 * RoiMax + 2)) \X (0..(2 * RoiMax + 2))

RoiRects == {<<x1, y1, x2, y2>> : x1 \in RoiCorners, y1 \in RoiCorners,
                                   x2 \in RoiCorners, y2 \in RoiCorners}

\* Polygons under interactive construction: no point, one, two, and a
\* triangle around the box BoxIn.
RoiPolygons ==
    {<<>>, <<<<2, 3>>>>, <<<<2, 3>>, <<6, 3>>>>, <<<<2, 3>>, <<6, 3>>, <<4, 8>>>>}

RoiFrames ==
    {Frame(<<BoxIn(Some(pAB12), None)>>), Frame(<<BoxOut(Some(pCD34), None)>>),
     Frame(<<BoxIn(Some(pAB1), Pix("h1", 0)), BoxOut(Some(pAB12), None)>>)}

RoiRules ==
    load_rules({rowab12, pAB1}, {rowcd34}, {}, {})

InitRoi ==
    \/ \E r \in RoiRects :
          InitWith(Pipeline(RoiRules,
              [roi_enabled |-> TRUE, roi_mode |-> "rectangle", roi_rect |-> Some(r),
               notify_unreadable |-> TRUE]))
    \/ \E poly \in RoiPolygons :
          InitWith(Pipeline(RoiRules,
              [roi_enabled |-> TRUE, roi_mode |-> "polygon", roi_polygon |-> Some(poly),
               notify_unreadable |-> TRUE]))

NextRoi ==
    \/ \E c \in RoiPoints : loop = "read" /\ dec = None /\ PointCall(c)
    \/ \E fr \in RoiFrames : dec = None /\ ProcessFrame(fr, EnvOk, 0)
    \/ EndIteration

SpecRoi == InitRoi /\ [][NextRoi]_vars

\* The rectangle with its corners given in the three other orders.
CornerOrders(r) ==
    {<<r[3], r[4], r[1], r[2]>>, <<r[1], r[4], r[3], r[2]>>, <<r[3], r[2], r[1], r[4]>>}

SameForEveryOrder(s, c, result) ==
    \A r \in CornerOrders(s.roi_rect) :
        _point_in_roi([s EXCEPT !.roi_rect = r], c) = result

\* C15 (as claimed): for every point, contains gives the same result for
\* the four orders of the corners, and is true exactly when the point lies
\* between the corners, these included.  Points are given doubled.
C15_RectangleInclusive ==
    (dec # None /\ self.roi_mode = "rectangle") =>
      LET c == Val(dec).center
          r == self.roi_rect
      IN  /\ SameForEveryOrder(self, c, Val(dec).result)
          /\ Val(dec).result <=>
                (/\ 2 * Min2(r[1], r[3]) <= c[1] /\ c[1] <= 2 * Max2(r[1], r[3])
                 /\ 2 * Min2(r[2], r[4]) <= c[2] /\ c[2] <= 2 * Max2(r[2], r[4]))

\* C15 (amended): the same for the pixel that holds the point, its
\* coordinates truncated to integers.
C15_RectangleInclusivePixel ==
    (dec # None /\ self.roi_mode = "rectangle") =>
      LET c == Val(dec).center
          r == self.roi_rect
          x == c[1] \div 2
          y == c[2] \div 2
      IN  /\ SameForEveryOrder(self, c, Val(dec).result)
          /\ Val(dec).result <=>
                (/\ Min2(r[1], r[3]) <= x /\ x <= Max2(r[1], r[3])
                 /\ Min2(r[2], r[4]) <= y /\ y <= Max2(r[2], r[4]))

\* A point on the second corner of a rectangle given upper corner first.
C15_Witness ==
    /\ dec # None /\ self.roi_mode = "rectangle"
    /\ self.roi_rect[1] > self.roi_rect[3] /\ self.roi_rect[2] > self.roi_rect[4]
    /\ Val(dec).center = <<2 * self.roi_rect[3], 2 * self.roi_rect[4]>>
    /\ Val(dec).result

ShortPolygon(s) == s.roi_enabled /\ s.roi_mode = "polygon" /\ Len(s.roi_polygon) < 3

\* C16 (as claimed): with a polygon of fewer than 3 points contains is true
\* for every point, and process_frame does with every frame what it does
\* with the ROI disabled: nothing of the frame handed to the detector is
\* blanked, no candidate is rejected, the same result and events.
C16_ShortPolygonIsRoiOff ==
    [][ShortPolygon(self) =>
         /\ dec' # dec => Val(dec').result
         /\ (loop = "read" /\ loop' = "display") =>
               out' = Observe(process_frame([self EXCEPT !.roi_enabled = FALSE],
                                            frame', now, EnvOk))
      ]_vars

----------------------------------------------------------------------------
(* Specification SpecDirection: the direction estimator *)

\* direction_enabled, direction_axis, direction_invert, direction_min_disp,
\* direction_gate_line, roi_enabled
DirectionConfigs ==
    {<<TRUE, "y", FALSE, 2, None, FALSE>>,
     <<TRUE, "y", TRUE, 2, None, TRUE>>,
     <<TRUE, "x", FALSE, 1, Some(4), FALSE>>,
     <<TRUE, "x", TRUE, 0, None, FALSE>>,
     <<TRUE, "y", FALSE, 3, Some(4), TRUE>>,
     <<FALSE, "y", FALSE, 2, None, FALSE>>}

\* Candidates whose centers are 1, 1.5, 2, 3 and 3.5 pixels apart along y
\* and 1 along x, all inside RoiRect.
DirectionXs == {3, 4}
DirectionYs == {2, 3, 5}

DirectionBoxes ==
    {Box(x, y, 2, 2, Some(pAB12), None) : x \in DirectionXs, y \in DirectionYs}
        \cup {Box(3, 3, 2, 3, Some(pAB12), None)}

DirectionFrames ==
    {Frame(<<b>>) : b \in DirectionBoxes}
        \cup {Frame(<<Box(3, y, 2, 2, Some(pAB1), Pix("h1", 0))>>) : y \in DirectionYs}
        \cup {Frame(<<BoxOut(Some(pAB12), None)>>),
              Frame(<<Box(3, 2, 2, 2, Some(pAB1), Pix("h1", 0)),
                      Box(3, 5, 2, 2, Some(pAB12), None)>>),
              Frame(<<Box(3, 2, 2, 2, Some(pAB1), Pix("h1", 0)),
                      Box(3, 5, 2, 2, Some(pAB1), Pix("h2", 1016))>>),
              Frame(<<BoxOut(Some(pAB12), None),
                      Box(3, 3, 2, 2, Some(pAB12), None)>>)}

InitDirection ==
    \E c \in DirectionConfigs :
        InitWith(Pipeline(RoiRules,
            [debounce_sec |-> 0, notify_unreadable |-> TRUE,
             direction_enabled |-> c[1], direction_axis |-> c[2],
             direction_invert |-> c[3], direction_min_disp |-> c[4],
             direction_gate_line |-> c[5],
             roi_enabled |-> c[6], roi_rect |-> Some(RoiRect)]))

NextDirection ==
    \/ \E fr \in DirectionFrames : ProcessFrame(fr, EnvOk, 0)
    \/ EndIteration

SpecDirection == InitDirection /\ [][NextDirection]_vars

\* The Direction State is what _update_direction_state(center) leaves.
StateAt(center) ==
    /\ self._last_center = Some(center)
    /\ self.direction_gate_line # None =>
          self._last_side =
              Some(IF center[AxisIndex(self.direction_axis)]
                        < 2 * Val(self.direction_gate_line) THEN 0 ELSE 1)

\* The next displacement, in this call or after it, is measured from the
\* center of the k-th estimation.
NextMeasuredFrom(k) ==
    LET e == out.ests[k]
        ax == AxisIndex(self.direction_axis)
    IN  IF k < Len(out.ests)
        THEN /\ out.ests[k + 1].tracking
             /\ out.ests[k + 1].delta2 = out.ests[k + 1].center[ax] - e.center[ax]
        ELSE StateAt(e.center)

\* The direction the notifications of the call report is the one estimated
\* last (for the candidate the call acts on).
ReportedIs(direction) ==
    \A n \in DOMAIN out.notif : out.notif[n].caption.direction = direction

Noise(e) == e.tracking /\ Abs(e.delta2) < 2 * self.direction_min_disp

\* C17: for every candidate inside the ROI whose displacement along the
\* active axis from the last recorded center is smaller in absolute value
\* than direction_min_disp, _estimate_direction reports no direction (and
\* the notification for it carries none), and the Direction State is
\* updated to its center and side: the next displacement is measured from it.
C17_NoiseStillUpdates ==
    \A k \in DOMAIN out.ests :
        (out.ests[k].inroi /\ Noise(out.ests[k])) =>
            /\ out.ests[k].dir = "none"
            /\ k = Len(out.ests) => ReportedIs("none")
            /\ out.ests[k].updated
            /\ NextMeasuredFrom(k)

\* A readable candidate 1.5 pixels below the last center, min_disp 2: the
\* plate is notified without a direction.
C17_Witness ==
    /\ loop = "display" /\ Len(out.ests) = 1 /\ Len(out.notif) = 1
    /\ out.ests[1].inroi /\ out.ests[1].tracking /\ out.ests[1].delta2 = 3
    /\ self.direction_enabled /\ self.direction_min_disp = 2
    /\ out.ret # None

BySign(delta2) == IF delta2 > 0 THEN "in" ELSE "out"
Opposite(direction) == IF direction = "in" THEN "out" ELSE "in"

\* C18: _estimate_direction reports no direction when the Direction State
\* holds no center or direction is disabled; when it holds one and the
\* displacement along the active axis is at least direction_min_disp in
\* absolute value, a positive displacement gives "in" and a negative one
\* "out" without inversion, the opposite with inversion; the notification
\* of the call carries the direction estimated last.
C18_SignRule ==
    /\ \A k \in DOMAIN out.ests :
          LET e == out.ests[k]
          IN  /\ (~e.tracking \/ ~self.direction_enabled) => e.dir = "none"
              /\ (/\ e.tracking /\ self.direction_enabled /\ e.delta2 # 0
                  /\ Abs(e.delta2) >= 2 * self.direction_min_disp) =>
                    e.dir = IF self.direction_invert THEN Opposite(BySign(e.delta2))
                            ELSE BySign(e.delta2)
    /\ out.ests # <<>> => ReportedIs(out.ests[Len(out.ests)].dir)

\* A plate 3 pixels further along y, inversion on: notified as "out".
C18_Witness ==
    /\ loop = "display" /\ Len(out.ests) = 1 /\ Len(out.notif) = 1
    /\ out.ests[1].tracking /\ out.ests[1].delta2 = 6
    /\ self.direction_enabled /\ self.direction_invert /\ self.direction_axis = "y"
    /\ out.notif[1].caption.direction = "out"

----------------------------------------------------------------------------
(* Claims on the end of the scan and on the Debounce Record, under Spec *)

\* The index of the first in-ROI candidate in scan order, or 0.
FirstInRoiIdx(s, boxes) ==
    LET hits == {i \in 1..Len(boxes) : InRoi(s, boxes[i])}
    IN  IF hits = {} THEN 0 ELSE CHOOSE i \in hits : \A j \in hits : i <= j

\* C19 (as claimed): a process_frame call stops at the first in-ROI
\* candidate in scan order, readable or not: no later candidate is read by
\* the OCR, has its direction estimated or the Direction State updated for
\* it, is asked about in the Debounce Record, or is dispatched.
C19_StopsAtFirstInRoi ==
    Called =>
      LET k == FirstInRoiIdx(self, frame.boxes)
      IN  k # 0 =>
            /\ out.reads <= k
            /\ \A n \in DOMAIN out.ests : out.ests[n].i <= k
            /\ \A n \in DOMAIN out.emit : out.emit[n].plate = TextOf(frame.boxes[k])
            /\ out.dispatch # None => Val(out.dispatch).plate = TextOf(frame.boxes[k])

\* An event for plate p was emitted by the call observed in o, and every
\* adapter it invoked worked.
EmittedOk(o, p) ==
    /\ o.dispatch # None /\ Val(o.dispatch).plate = p
    /\ o.raised = "none"
    /\ \A n \in DOMAIN o.notif : o.notif[n].result = "ok"
    /\ \A n \in DOMAIN o.acts : o.acts[n].result = "ok"

\* C20 (as claimed): a process_frame call changes the Debounce Record entry
\* of a plate only if it emitted an event for that plate with success, and
\* no step removes an entry.
C20_RecordOnlyOnEmission ==
    [][/\ DOMAIN self.last_seen \subseteq DOMAIN self'.last_seen
       /\ \A p \in DOMAIN self'.last_seen :
             Get(self'.last_seen, p) # Get(self.last_seen, p) => EmittedOk(out', p)
      ]_vars

----------------------------------------------------------------------------
(* Further claims under SpecDebounce *)

\* C21: a process_frame call whose _should_emit check returns false leaves
\* last_seen as it was; last_seen therefore holds, for every plate, the
\* time of its last emission, and a plate seen more than debounce_sec after
\* that emission is emitted again.
C21_FalseCheckLeavesRecord ==
    [][(loop = "read" /\ loop' # "read") =>
         /\ (\A i \in DOMAIN out'.emit : ~out'.emit[i].ret)
               => self'.last_seen = self.last_seen
         /\ self'.last_seen = hist'.last_true
         /\ \A i \in DOMAIN out'.emit :
               LET e == out'.emit[i]
               IN  (/\ e.plate \in DOMAIN hist.last_true
                    /\ e.t - hist.last_true[e.plate] > self.debounce_sec) => e.ret
      ]_vars

\* A plate sighted within its window, later than its emission, with another
\* plate on record: the check is false and the record keeps the emission.
C21_Witness ==
    /\ loop = "display"
    /\ Len(out.emit) = 1 /\ ~out.emit[1].ret
    /\ out.emit[1].t > self.last_seen[out.emit[1].plate]
    /\ Cardinality(DOMAIN self.last_seen) = 2

----------------------------------------------------------------------------
(* Further claims under SpecDirection *)

\* The pipeline s with the direction configuration c (as in
\* DirectionConfigs) and the Direction State (center, side).
WithDirection(s, c, center, side) ==
    [s EXCEPT !.direction_enabled = c[1], !.direction_axis = c[2],
              !.direction_invert = c[3], !.direction_min_disp = c[4],
              !.direction_gate_line = c[5],
              !._last_center = center, !._last_side = side]

DirectionStates ==
    {<<None, None>>, <<Some(<<8, 6>>), None>>, <<Some(<<8, 6>>), Some(0)>>,
     <<Some(<<10, 12>>), Some(1)>>, <<Some(<<8, 9>>), Some(0)>>}

\* The pipelines that differ from s in direction configuration or state only.
DirectionVariants(s) ==
    {WithDirection(s, c, d[1], d[2]) :
        c \in DirectionConfigs, d \in DirectionStates}

\* What is left of a pipeline, and of what a call did, when everything
\* about direction is taken out.
NoDirection(s) ==
    WithDirection(s, <<FALSE, "y", FALSE, 0, None>>, None, None)

NoDirectionText(o) ==
    [o EXCEPT !.ests = <<>>,
              !.dispatch = IF @ = None THEN None
                           ELSE Some([Val(@) EXCEPT !.direction = "none"]),
              !.notif = [n \in DOMAIN @ |-> [@[n] EXCEPT !.caption.direction = "none"]]]

\* C22: a process_frame call on a pipeline that differs only in direction
\* configuration or state returns the same, invokes the same actuators and
\* sends the same notifications but for the direction text, and leaves the
\* same pipeline but for the direction state; by induction two runs over
\* the same frames and clock then agree call by call.
C22_DirectionAdvisoryOnly ==
    [][(loop = "read" /\ loop' # "read") =>
         \A v \in DirectionVariants(self) :
            LET st == process_frame(v, frame', now, EnvOk)
            IN  /\ NoDirectionText(Observe(st)) = NoDirectionText(out')
                /\ NoDirection(st.self) = NoDirection(self')
      ]_vars

\* A plate dispatched with direction "out", the gate opened for it.
C22_Witness ==
    /\ loop = "display"
    /\ out.dispatch # None /\ Val(out.dispatch).direction = "out"
    /\ Len(out.acts) = 1 /\ out.ret # None

----------------------------------------------------------------------------
(* Specification SpecMemory: a long row of distinct unreadable candidates *)

\* The k-th distinct unreadable candidate: its exact hash and its perceptual
\* hash are both k, so with threshold 0 no two of them are similar.
MemoryFrame(k) == Frame(<<BoxIn(Some(pAB1), Pix(k, k))>>)

\* How many distinct candidates the camera shows, one per frame.
MaxCandidates == 502

InitMemory ==
    InitWith(Pipeline(RoiRules,
        [notify_unreadable |-> TRUE, unreadable_debounce_sec |-> 10,
         unreadable_global_cooldown_sec |-> 0, unreadable_dhash_threshold |-> 0]))

\* The next frame shows a candidate not seen before, or the first one again.
NextMemory ==
    \/ \E k \in {1, Len(self._unreadable_memory) + 1} :
          k <= MaxCandidates /\ ProcessFrame(MemoryFrame(k), EnvOk, 0)
    \/ EndIteration

SpecMemory == InitMemory /\ [][NextMemory]_vars

\* C23 (as claimed): _unreadable_memory never holds more perceptual hashes
\* than the high-water mark, and none older than the retention window once
\* a call has scanned it.
C23_MemoryBounded ==
    /\ Len(self._unreadable_memory) <= PruneAbove
    /\ (/\ loop = "display" /\ out.upath # None
        /\ Val(out.upath).dhash # None /\ ~Val(out.upath).dup) =>
          \A i \in DOMAIN self._unreadable_memory :
              Val(out.upath).t - self._unreadable_memory[i][2] <= RetentionWindow(self)

----------------------------------------------------------------------------
(* Further claims under SpecUnreadable *)

\* C24 (as claimed): a call that takes an unreadable candidate to the
\* dedup engine decides to notify exactly when the global cooldown and the
\* perceptual check allow it (_unreadable_duplicate returns false): the
\* exact-hash debounce suppresses nothing more.  As the two layers keep
\* their state only in what the notifications leave, a pipeline without the
\* exact-hash layer then sends the same notifications call by call.
C24_ExactHashLayerRedundant ==
    (Called /\ out.upath # None) =>
        (Val(out.upath).sent <=> ~Val(out.upath).dup)

----------------------------------------------------------------------------
(* Specification SpecCalibrate: calibration of the direction settings *)

CalibrateClicks == {<<4, 3>>, <<5, 6>>}
CalibrateKeys == {"x", "i", "+", "-"}
MaxMinDisp == 4

CalibrateFrames ==
    {Frame(<<Box(3, 2, 2, 2, Some(pAB12), None)>>),
     Frame(<<Box(4, 5, 2, 2, Some(pAB12), None)>>),
     Frame(<<Box(3, 3, 2, 3, Some(pAB1), Pix("h1", 0))>>)}

\* main.py line 102: calibration runs with the actuators suppressed.
InitCalibrate ==
    \E line \in {None, Some(4)} :
        InitWith(Pipeline(RoiRules,
            [debounce_sec |-> 0, suppress_actuators |-> TRUE,
             direction_min_disp |-> 2, direction_gate_line |-> line]))

NextCalibrate ==
    \/ \E fr \in CalibrateFrames : ProcessFrame(fr, EnvOk, 0)
    \/ EndIteration
    \/ \E c \in CalibrateClicks : OnMouse(c[1], c[2], TRUE)
    \/ \E key \in CalibrateKeys :
          /\ key = "+" => self.direction_min_disp < MaxMinDisp
          /\ KeyPress(key)

SpecCalibrate == InitCalibrate /\ [][NextCalibrate]_vars

\* C25 (as claimed): every step that changes direction_axis or
\* direction_gate_line leaves the estimator uninitialized: no prior center
\* and no prior side.
C25_ResetOnAxisOrLineChange ==
    [][(\/ self'.direction_axis # self.direction_axis
        \/ self'.direction_gate_line # self.direction_gate_line)
         => (self'._last_center = None /\ self'._last_side = None)
      ]_vars

----------------------------------------------------------------------------
(* Specification SpecRoiEdit: calibration of the ROI, frames of two sizes *)

MaxPolygon == 3

\* The points clicked: a polygon is drawn by clicking them in this order,
\* round and round; a rectangle is drawn with the first two, in any order.
RoiClicks == <<<<2, 3>>, <<6, 7>>, <<4, 8>>>>

NextClicks(s) ==
    IF s.roi_mode = "polygon"
    THEN IF Len(s.roi_polygon) < MaxPolygon
         THEN {RoiClicks[(Len(s.roi_polygon) % Len(RoiClicks)) + 1]}
         ELSE {}
    ELSE {RoiClicks[1], RoiClicks[2]}
RoiKeys == {"t", "p", "n"}

\* The camera's frames before and after a change of its resolution.
SmallFrameSize == <<8, 9>>
RoiEditFrames ==
    {[size |-> sz, boxes |-> <<BoxIn(Some(pAB12), None)>>] :
        sz \in {FrameSize, SmallFrameSize}}

InitRoiEdit ==
    \E on \in BOOLEAN :
        InitWith(Pipeline(RoiRules,
            [debounce_sec |-> 0, suppress_actuators |-> TRUE,
             roi_enabled |-> on, roi_rect |-> Some(RoiRect)]))

NextRoiEdit ==
    \/ \E fr \in RoiEditFrames : ProcessFrame(fr, EnvOk, 0)
    \/ EndIteration
    \/ \E c \in NextClicks(self) : OnMouse(c[1], c[2], FALSE)
    \/ \E key \in RoiKeys : KeyPress(key)

SpecRoiEdit == InitRoiEdit /\ [][NextRoiEdit]_vars

\* C26: the mask a process_frame call applies (the one it leaves in
\* _roi_mask) is the mask built from the current ROI mode and geometry for
\* the dimensions of the frame it is applied to, whatever was cached, and
\* the frame is blanked outside that mask.
C26_MaskNeverStale ==
    [][(loop = "read" /\ loop' = "display" /\ self.roi_enabled) =>
         LET w == frame'.size[1]
             h == frame'.size[2]
             fresh == BuildMask(self, w, h)
         IN  /\ self'._roi_mask = Some(fresh)
             /\ self'._roi_mask_size = Some(<<w, h>>)
             /\ out'.blanked = w * h - Cardinality(fresh)
      ]_vars

\* A frame of the small size masked with a triangle drawn by three clicks.
C26_Witness ==
    /\ loop = "display" /\ self.roi_enabled
    /\ self.roi_mode = "polygon" /\ Len(self.roi_polygon) = MaxPolygon
    /\ frame.size = SmallFrameSize
    /\ self._roi_mask_size = Some(SmallFrameSize)
    /\ out.blanked \in 1..(SmallFrameSize[1] * SmallFrameSize[2] - 1)

----------------------------------------------------------------------------
(* Claims on the dispatch of a decided plate, under Spec *)

\* C27: a readable plate inside the ROI that is decided ignore causes no
\* notification and no actuation: the call that dispatches it sends nothing
\* to the notifier and invokes neither the gate nor the alarm.
C27_IgnoreIsSilent ==
    (Called /\ out.dispatch # None /\ Val(out.dispatch).decision = "ignore")
        => out.notif = <<>> /\ out.acts = <<>>

----------------------------------------------------------------------------
(* Specification SpecDispatch: the frames of Spec at one instant *)

\* Every configuration, frame and adapter failure of Spec, the clock
\* standing still. The claims about one process_frame call that do not
\* depend on the time (C4, C5, C6 above, C28 and C29 below) hold of it.
InitDispatch == Init

NextDispatch ==
    \/ \E fr \in DispatchFrames : ProcessFrame(fr, EnvOk, 0)
    \/ \E fr \in FaultFrames, env \in Faults : ProcessFrame(fr, env, 0)
    \/ EndIteration

SpecDispatch == InitDispatch /\ [][NextDispatch]_vars

\* C28: a dispatched plate decided watch has its notification sent with the
\* group the watch list gives the plate decide matched (the upper-cased
\* text); a dispatched plate of any other decision has it sent with no
\* group, even when the watch list names the plate with a group.
C28_RoutingByDecision ==
    (Called /\ out.dispatch # None) =>
        LET d == Val(out.dispatch)
        IN  /\ Len(out.notif) = 1
            /\ d.decision = "watch" =>
                  out.notif[1].group = self.rules.watchlist[Upper(d.plate)]
            /\ d.decision # "watch" => out.notif[1].group = None

\* A plate decided watch, its notification sent with the group of its row.
C28_Witness ==
    /\ loop = "display" /\ out.dispatch # None
    /\ Val(out.dispatch).decision = "watch"
    /\ Len(out.notif) = 1 /\ out.notif[1].group = Some(<<"g", "1">>)
    /\ out.notif[1].result = "ok"

\* C29: a candidate whose stripped text has fewer than 4 characters (none
\* included) is unreadable: the call it is in neither decides nor dispatches
\* that text, leaves its Debounce Record entry as it was and invokes no
\* actuator for it, the allow and deny lists notwithstanding; and a first
\* candidate inside the ROI whose text has exactly 4 characters, once read,
\* is the one the call asks the Debounce Record about.
C29_MinLengthGate ==
    [][(loop = "read" /\ loop' \in {"display", "stopped"}) =>
         /\ \A k \in 1..Len(frame'.boxes) :
               LET p == TextOf(frame'.boxes[k])
               IN  Len(p) < 4 =>
                     /\ \A n \in DOMAIN out'.emit : out'.emit[n].plate # p
                     /\ out'.dispatch # None => Val(out'.dispatch).plate # p
                     /\ out'.ret # None => Val(out'.ret)[1] # p
                     /\ Get(self'.last_seen, p) = Get(self.last_seen, p)
                     /\ \A n \in DOMAIN out'.acts : out'.acts[n].plate # p
         /\ (/\ out'.reads >= 1
             /\ InRoi(self, frame'.boxes[1])
             /\ Len(TextOf(frame'.boxes[1])) = 4)
               => /\ Len(out'.emit) = 1
                  /\ out'.emit[1].plate = TextOf(frame'.boxes[1])
      ]_vars

\* The text AB1, on the allow list, read inside the ROI with the actuators
\* on: no actuation, no Debounce Record entry, an unreadable notification.
C29_Witness ==
    /\ loop = "display" /\ ~self.suppress_actuators
    /\ Len(frame.boxes) = 1 /\ InRoi(self, frame.boxes[1])
    /\ TextOf(frame.boxes[1]) = pAB1 /\ pAB1 \in self.rules.allowed
    /\ out.reads = 1 /\ out.emit = <<>> /\ out.acts = <<>>
    /\ pAB1 \notin DOMAIN self.last_seen
    /\ SentUnreadable(out)

----------------------------------------------------------------------------
(* The candidate without a hash, under SpecUnreadable *)

\* C30: an unreadable candidate for which no hash could be computed is no
\* duplicate: its notification is sent exactly when the global cooldown has
\* elapsed since the last one; sending it restarts the cooldown, a
\* suppressed one leaves it running; and the Unreadable Memory and the
\* exact-hash record stay as they were.
C30_NoHashGatedByCooldownOnly ==
    [][(/\ loop = "read" /\ loop' = "display"
        /\ out'.upath # None
        /\ Val(out'.upath).hash = None /\ Val(out'.upath).dhash = None) =>
         LET t == Val(out'.upath).t
             elapsed == t - self._last_unreadable_emit_ts
                            >= self.unreadable_global_cooldown_sec
         IN  /\ SentUnreadable(out') <=> elapsed
             /\ Val(out'.upath).dup <=> ~elapsed
             /\ self'._last_unreadable_emit_ts =
                    IF elapsed THEN t ELSE self._last_unreadable_emit_ts
             /\ self'._unreadable_memory = self._unreadable_memory
             /\ self'.last_unreadable_seen = self.last_unreadable_seen
      ]_vars

\* A candidate without a hash notified while the Unreadable Memory and the
\* exact-hash record hold the region notified one cooldown earlier.
C30_Witness ==
    /\ loop = "display" /\ SentUnreadable(out)
    /\ out.upath # None /\ Val(out.upath).dhash = None
    /\ self._last_unreadable_emit_ts = Val(out.upath).t
    /\ Len(self._unreadable_memory) = 1
    /\ Len(self.last_unreadable_seen) = 1
    /\ hist.prev_unote # None
    /\ Val(out.upath).t - Val(hist.prev_unote).t = self.unreadable_global_cooldown_sec

----------------------------------------------------------------------------
(* Specification SpecRun: the main loop of run() beside the acquisition *)
(* thread, from the first pass to the end of the finally block          *)

qvars == <<self, now, loop, frame, out, hist, dec>>

\* cfg.camera.skip_frames, --display, --calibrate, detector.debug_draw
RunConfigs ==
    {<<1, FALSE, FALSE, FALSE>>, <<2, TRUE, FALSE, TRUE>>, <<1, TRUE, TRUE, FALSE>>}

\* What the detector and the OCR find in a frame of the camera: nothing,
\* or the plate AB12.
RunBoxes == {<<>>, <<Box(1, 1, 2, 1, Some(pAB12), None)>>}

RunEnvs == {EnvOk, [EnvOk EXCEPT !.notify = "fail"], [EnvOk EXCEPT !.notify = "raise"]}

\* cv2.waitKey(1) & 0xFF: "none" is 255, no key.
RunKeys == {"q", "none", "x", "w"}

\* run() up to line 133: the stream started (line 38), the pipeline made
\* (line 84, suppress_actuators = args.calibrate), the handlers installed.
InitRun ==
    \E c \in RunConfigs :
        InitAll(Pipeline(RoiRules,
                    [debounce_sec |-> 0, debug_draw |-> c[4],
                     suppress_actuators |-> c[3]]),
                StreamStart(RTSPStream(ResizeWidth, ReadTimeoutSec)),
                RunLocals(c[1], c[2], c[3]))

\* _handle_sig (lines 120-125), on SIGINT or SIGTERM.
Signal ==
    /\ loop # "exited"
    /\ ~main.stopping
    /\ main' = [main EXCEPT !.stopping = TRUE]
    /\ UNCHANGED <<self, now, loop, frame, out, hist, dec, stream>>

\* Lines 166-173: the loop test, stream.read(), the wait for a first
\* frame, the count and the skip test.
LoopRead ==
    /\ loop = "read"
    /\ IF main.stopping
       THEN /\ loop' = "stopped"
            /\ main' = [main EXCEPT !.why = "signal"]
            /\ UNCHANGED stream
       ELSE /\ stream' = StreamRead(stream)
            /\ IF stream.frame = None
               THEN UNCHANGED <<loop, main>>
               ELSE LET n == (main.frame_count + 1) % main.skip
                    IN  /\ main' = [main EXCEPT !.held = stream.frame, !.frame_count = n]
                        /\ loop' = IF n = 0 THEN "process" ELSE "overlay"
    /\ UNCHANGED <<self, now, frame, out, hist, dec>>

\* What a call with the buffer k does to it: handed to process_frame once
\* more, and drawn into or not.  A buffer whose number the camera has
\* taken again (k = -1) is no longer in the memory followed here.
Handed(st, k, drawn) ==
    IF k < 0 THEN st
    ELSE [st EXCEPT !.pix[k] = [drawn |-> @.drawn \/ drawn, procs |-> Min2(@.procs + 1, 2)]]

DrawnInto(st, k) ==
    IF k < 0 THEN st ELSE [st EXCEPT !.pix[k].drawn = TRUE]

\* Line 174: pipeline.process_frame(frame); an exception ends the loop
\* (lines 216-217).
LoopProcess(boxes, env) ==
    /\ loop = "process"
    /\ LET f == Val(main.held)
           fr == [size |-> <<f.w, f.h>>, boxes |-> boxes]
           st == process_frame(self, fr, now, env)
       IN  /\ self' = st.self
           /\ frame' = fr
           /\ out' = Observe(st)
           /\ hist' = Record(hist, st, now)
           /\ stream' = Handed(stream, f.seq, st.drawn)
           /\ loop' = IF st.raised # "none" THEN "stopped" ELSE "overlay"
           /\ main' = IF st.raised # "none" THEN [main EXCEPT !.why = "error"] ELSE main
    /\ UNCHANGED <<now, dec>>

\* Lines 176-180: draw_calibration_overlay(frame) under --calibrate, which
\* writes its six lines of text (pipeline.py lines 273-287) into the frame
\* it is given; then the test for the window.
LoopOverlay ==
    /\ loop = "overlay"
    /\ stream' = IF main.calibrate THEN DrawnInto(stream, Val(main.held).seq) ELSE stream
    /\ loop' = IF main.display \/ self.debug_draw \/ main.calibrate THEN "show" ELSE "read"
    /\ UNCHANGED <<self, now, frame, out, hist, dec, main>>

\* LoopShow with "q" ending run() on the spot, the finally block left out.
LoopShow_no_finally(key, save) ==
    /\ loop = "show"
    /\ IF key = "q"
       THEN /\ loop' = "exited"
            /\ main' = [main EXCEPT !.why = "quit"]
            /\ UNCHANGED self
       ELSE /\ loop' = "read"
            /\ self' = IF main.calibrate /\ key # "none" THEN on_key(self, key) ELSE self
            /\ UNCHANGED main
    /\ UNCHANGED <<now, frame, out, hist, dec, stream>>

\* Lines 181-215: imshow, waitKey and the keys; "q" leaves the loop, the
\* others are for --calibrate; what goes wrong in saving on "w" (save) is
\* caught there (lines 206-207).
LoopShow(key, save) ==
    /\ loop = "show"
    /\ IF key = "q"
       THEN /\ loop' = "stopped"
            /\ main' = [main EXCEPT !.why = "quit"]
            /\ UNCHANGED self
       ELSE /\ loop' = "read"
            /\ self' = IF main.calibrate /\ key # "none" THEN on_key(self, key) ELSE self
            /\ UNCHANGED main
    /\ UNCHANGED <<now, frame, out, hist, dec, stream>>

\* Lines 218-227: the finally block: stream.stop(), step by step, and the
\* return of run().
Finally ==
    /\ \/ /\ loop = "stopped"
          /\ stream' = StopSet(stream)
          /\ loop' = "finally"
       \/ /\ loop = "finally" /\ stream.mpc = "stop_join" /\ JoinReturns(stream)
          /\ stream' = [stream EXCEPT !.mpc = "stop_release"]
          /\ UNCHANGED loop
       \/ /\ loop = "finally" /\ stream.mpc = "stop_release"
          /\ stream' = StopRelease(stream)
          /\ UNCHANGED loop
       \/ /\ loop = "finally" /\ stream.mpc = "stop_returned"
          /\ loop' = "exited"
          /\ UNCHANGED stream
    /\ UNCHANGED <<self, now, frame, out, hist, dec, main>>

\* One step of the acquisition thread.  When cap.read() fills a buffer under
\* the number of the one the main loop still holds, the one held is another
\* buffer from then on.
Acquire ==
    /\ UpdateStep
    /\ main' = IF /\ main.held # None
                  /\ stream'.t_frame # stream.t_frame
                  /\ stream'.tpc = "got"
                  /\ Val(main.held).seq = Val(stream'.t_frame).seq
               THEN [main EXCEPT !.held = Some([Val(@) EXCEPT !.seq = -1])]
               ELSE main
    /\ UNCHANGED qvars

NextRun ==
    \/ Signal
    \/ LoopRead
    \/ \E boxes \in RunBoxes, env \in RunEnvs : LoopProcess(boxes, env)
    \/ LoopOverlay
    \/ \E key \in RunKeys, save \in {"ok", "raise"} : LoopShow(key, save)
    \/ Finally
    \/ Acquire

SpecRun == InitRun /\ [][NextRun]_vars

\* C31: the frame the Frame Source publishes is not written into while it
\* is the published one: neither process_frame nor the overlay step has
\* drawn into the buffer stream.frame refers to, so that read() returns the
\* image as the camera delivered it.
C31_PublishedFrameIntact ==
    stream.frame # None => ~stream.pix[Val(stream.frame).seq].drawn

\* C32: the frames handed to process_frame go strictly up in publication
\* order: no buffer the Frame Source published is handed to process_frame
\* a second time.
C32_EachFrameProcessedOnce ==
    \A k \in DOMAIN stream.pix : stream.pix[k].procs <= 1

\* C33: the main loop ends in three ways only: the stop flag a signal has
\* set, seen at the loop test; the key "q"; an exception out of
\* process_frame (a notification that merely fails ends nothing).  stop()
\* is not called while the loop runs, and when run() returns it has been
\* called once and has returned.
C33_OrderlyShutdown ==
    [][/\ (loop # "stopped" /\ loop' = "stopped") =>
             \/ loop = "read" /\ main.stopping /\ main'.why = "signal"
             \/ loop = "show" /\ main'.why = "quit"
             \/ loop = "process" /\ out'.raised # "none" /\ main'.why = "error"
       /\ (loop = "process" /\ loop' # "process" /\ out'.raised = "none")
             => loop' = "overlay"
       /\ stream'.stops # stream.stops => (loop = "stopped" /\ stream.stops = 0)
       /\ loop' = "exited" => (stream'.stops = 1 /\ stream'.mpc = "stop_returned")
      ]_vars

\* run() has returned after an exception out of process_frame ended the
\* loop: stop() was called once.
C33_Witness ==
    /\ loop = "exited" /\ main.why = "error" /\ out.raised = "notify"
    /\ stream.stops = 1 /\ stream.mpc = "stop_returned" /\ stream.stopped

----------------------------------------------------------------------------
(* The candidates outside the ROI, under SpecDirection *)

\* C34: a candidate rejected for its center outside the ROI leaves no
\* trace: a process_frame call ends in the pipeline state (Debounce Record,
\* exact-hash record, Unreadable Memory, last unreadable emission, Direction
\* State), and with the notifications, directions included, the actuations
\* and the return value, of the same call on the frame without its
\* rejected candidates.
C34_RejectedLeavesNoTrace ==
    [][(loop = "read" /\ loop' = "display") =>
         LET kept == SelectSeq(frame'.boxes, LAMBDA b : InRoi(self, b))
             ref == process_frame(self, [frame' EXCEPT !.boxes = kept], now, EnvOk)
         IN  /\ self' = ref.self
             /\ out'.notif = ref.notif
             /\ out'.acts = ref.acts
             /\ out'.ret = ref.ret
             /\ out'.upath = ref.upath
      ]_vars

\* A candidate outside the ROI and, after it, a readable one inside whose
\* notification reports a direction, measured from the center an earlier
\* frame left.
C34_Witness ==
    /\ loop = "display" /\ self.roi_enabled
    /\ Len(frame.boxes) = 2 /\ ~InRoi(self, frame.boxes[1]) /\ InRoi(self, frame.boxes[2])
    /\ Len(out.ests) = 2 /\ out.ests[2].tracking /\ out.ests[2].dir # "none"
    /\ Len(out.notif) = 1 /\ out.notif[1].caption.direction = out.ests[2].dir
    /\ self._last_center = Some(CenterOf(frame.boxes[2]))

\* The index of the first unreadable in-ROI candidate in scan order, or 0.
FirstUnreadableIdx(s, boxes) ==
    LET hits == {i \in 1..Len(boxes) : InRoi(s, boxes[i]) /\ ~Readable(boxes[i])}
    IN  IF hits = {} THEN 0 ELSE CHOOSE i \in hits : \A j \in hits : i <= j

\* C35: the unreadable notification carries the direction estimated from
\* the center recorded before the frame to the center of the unreadable
\* candidate it is sent for: the label a readable candidate there would get.
C35_UnreadableDirection ==
    [][(loop = "read" /\ loop' = "display" /\ SentUnreadable(out')) =>
         LET k == FirstUnreadableIdx(self, frame'.boxes)
         IN  \A n \in DOMAIN out'.notif :
                out'.notif[n].caption.direction =
                    _estimate_direction(self, CenterOf(frame'.boxes[k]))
      ]_vars

\* The new centers (doubled) and the gate lines the estimator is asked
\* about, and the sides the Direction State may hold.
EstimateCenters == {<<x, y>> : x \in {8, 10}, y \in {6, 8, 9, 12}}
GateLines == {None, Some(3), Some(4), Some(5)}
Sides == {None, Some(0), Some(1)}

\* The label by the sign of the displacement and the inversion flag.
LabelBySign(s, current_center) ==
    LET delta2 == current_center[AxisIndex(s.direction_axis)]
                      - Val(s._last_center)[AxisIndex(s.direction_axis)]
    IN  IF s.direction_invert THEN Opposite(BySign(delta2)) ELSE BySign(delta2)

\* C36: the label of the Direction Estimator does not depend on the gate
\* line: for the Direction State and settings of every state reached, every
\* new center, every gate line and every last side, the side flipping or
\* not, it is the label returned without a gate line, which is the one by
\* the sign of the displacement and the inversion flag whenever a center is
\* held and the displacement reaches direction_min_disp.
C36_GateLineIrrelevant ==
    \A c \in EstimateCenters, gl \in GateLines, side \in Sides :
        LET with == [self EXCEPT !.direction_gate_line = gl, !._last_side = side]
            without == [self EXCEPT !.direction_gate_line = None, !._last_side = None]
            measured ==
                /\ self.direction_enabled /\ self._last_center # None
                /\ Abs(c[AxisIndex(self.direction_axis)]
                          - Val(self._last_center)[AxisIndex(self.direction_axis)])
                       >= 2 * self.direction_min_disp
        IN  /\ _estimate_direction(with, c) = _estimate_direction(without, c)
            /\ _estimate_direction(with, c) =
                   IF measured THEN LabelBySign(self, c) ELSE "none"

\* A call with a gate line in which the candidate stayed on the side of the
\* line the last center was on, and a direction was reported for it.
C36_Witness ==
    /\ loop = "display" /\ self.direction_gate_line # None
    /\ Len(out.ests) = 1 /\ out.ests[1].tracking /\ out.ests[1].dir # "none"
    /\ LET e == out.ests[1]
           ax == AxisIndex(self.direction_axis)
           line2 == 2 * Val(self.direction_gate_line)
       IN  (e.center[ax] - e.delta2 < line2) <=> (e.center[ax] < line2)
    /\ Len(out.notif) = 1 /\ out.notif[1].caption.direction = out.ests[1].dir

-----------------------------------------------------------------------------
(* Specification SpecLog: log records forwarded to Telegram *)

\* The deepest nesting of emit calls the interpreter's recursion limit
\* allows, and the count up to which requests are told apart.
RecursionLimit == 3
MaxSends == 6

\* Lengths of a formatted record: one chunk, one full chunk with the
\* prefix, two chunks; and of the notifier's warning.
LogLens == {40, 3792, 3793}
WarningLens == {60, 260}
SendOutcomes == {"ok", "api_error", "request_failed"}

\* run() with cfg.logging.forward_to_telegram (lines 65-70).
InitLog ==
    \E level \in LogLevels, token \in BOOLEAN, targets \in 0..2 :
        InitAll(Pipeline(RoiRules,
                    [debounce_sec |-> 0, debug_draw |-> FALSE,
                     suppress_actuators |-> FALSE]),
                RTSPStream(ResizeWidth, ReadTimeoutSec),
                [RunLocals(1, FALSE, FALSE) EXCEPT
                    !.log = TelegramLogHandler(TRUE, level, token, targets)])

\* A logging call of the program reaches the root logger while the handler
\* is idle.
LogRecord(level, formatted_len) ==
    /\ main.log.stack = <<>>
    /\ LET fresh == [main.log EXCEPT
                        !.sends = 0,
                        !.budget = IF level < main.log.level THEN 0
                                   ELSE Chunks(formatted_len) * main.log.targets]
       IN  main' = [main EXCEPT !.log = Handle(fresh, level, formatted_len, RecursionLimit)]
    /\ UNCHANGED <<self, now, loop, frame, out, hist, dec, stream>>

\* The innermost emit sends its next chunk to its next chat.
SendDebug(outcome, warning_len) ==
    /\ main.log.stack # <<>>
    /\ main' = [main EXCEPT !.log = SendDebugStep(main.log, outcome, warning_len,
                                                  RecursionLimit, MaxSends)]
    /\ UNCHANGED <<self, now, loop, frame, out, hist, dec, stream>>

NextLog ==
    \/ \E level \in LogLevels, n \in LogLens : LogRecord(level, n)
    \/ \E outcome \in SendOutcomes, n \in WarningLens : SendDebug(outcome, n)

SpecLog == InitLog /\ [][NextLog]_vars

\* C37: forwarding one log record makes at most one request per chunk of
\* the message and target chat, whether the requests succeed or fail: the
\* warning logged on a failed request starts no further requests.
C37_BoundedSends == main.log.sends <= main.log.budget

====
